---- MODULE Spec2Model ----
(***************************************************************************)
(* Issue-Templates-For-Jira: the resolver layer that stores issue          *)
(* templates in a key-value store, assigns them to projects / issue types  *)
(* and keeps "one active template per (project, issueType)".               *)
(*                                                                         *)
(* The Forge storage is modelled by `store` (the records under            *)
(* 'issue-templates:template:<id>') and `index` (the array under           *)
(* 'issue-templates:index').  Every handler runs to completion in one      *)
(* step (one request at a time), except in RaceSpec, where requests are    *)
(* concurrent and every storage get / set / delete is a step of its own.   *)
(* ScopeSpec applies the overlap test and the lookup to drawn scopes.      *)
(* `last` is the response of the most recent request.                      *)
(*                                                                         *)
(* Representation choices:                                                 *)
(*  - an array of strings is modelled by the set of its elements (every    *)
(*    reader uses only length === 0, includes and some);                   *)
(*  - a property that is absent is Undefined for the two scope arrays;     *)
(*    the flags `active` and `deleted` are only ever read for truthiness   *)
(*    (tpl.active, !tpl.active, tpl.deleted), so an absent flag is stored  *)
(*    as FALSE;                                                            *)
(*  - generateId() is a fresh id: ids are numbered in creation order;      *)
(*  - a request carries its caller (req.context.user, or none) and, where   *)
(*    a handler asks Jira for the caller's project permissions, what Jira  *)
(*    answers; the global config and the project settings are storage;     *)
(*  - `req` is the request being answered and `data` what a read handler   *)
(*    returns; timestamps (createdAt, updatedAt) and the fields no handler *)
(*    reads back (projects, meta) are left out of the records.             *)
(***************************************************************************)
EXTENDS Integers, Sequences, FiniteSets, TLC

\* Bound of Spec: how many templates are ever created (createTemplate and
\* duplicateTemplate together).
MaxIds == 2

\* Bound of EnforceSpec: how many templates the store holds at most.
NumTemplates == 3

Projects   == {"X", "Y"}
IssueTypes == {"Bug", "Task"}

\* JS values that are not arrays of strings.
Undefined == {"<undefined>"}
NotArray  == {"<not-an-array>"}

\* The missing / empty string of a lookup (a falsy projectKey or issueType).
Missing == ""

\* The key under which listFilterProjects counts the templates of no project and
\* the projectKey with which filterTemplatesByProject selects them.
AllKey == "__ALL__"

\* A payload field that is a string or absent: absent is AbsentText.
AbsentText == "<absent>"
\* The strings a summary, a content or a current value takes: empty, whitespace
\* only, text, and text with whitespace around it.
Texts == {"", " ", "Fix", " Fix "}

\* req.context.user: none, or an object with an accountId and possibly an admin flag
\* (isProductAdmin / isAdmin).  An owner is an accountId, NoAccount for null.
NoAccount == "<null>"
User(accountId, isAdmin) == [accountId |-> accountId, isAdmin |-> isAdmin]
NoUser == User(NoAccount, FALSE)
Root   == User("root", TRUE)
Bob    == User("bob", FALSE)
Carol  == User("carol", FALSE)

Ids == 1..MaxIds
StoreIds == 1..NumTemplates
\* `null` where a handler returns a template or none.
NoId == 0

VARIABLES
  store,    \* id -> template record, for the ids that have a record
  index,    \* the index array, newest first
  nextId,   \* the next fresh id
  config,   \* the global config (what readGlobalConfig returns)
  projectSettings, \* the project settings map: projectKey -> enabled
  last,     \* the response of the latest request
  req,      \* the request being answered: its caller and its payload
  data,     \* what a read handler returns
  fa, fb, fkey, ftype, \* the arguments of the pure functions (PureSpec)
  fout,     \* the latest result of a pure function
  inflight  \* the concurrent requests (RaceSpec): request -> its position and locals

vars == <<store, index, nextId, config, projectSettings, last, req, data,
          fa, fb, fkey, ftype, fout, inflight>>
storeVars == <<store, index, nextId>>
configVars == <<config, projectSettings>>
pureVars == <<fa, fb, fkey, ftype, fout>>
raceVars == <<inflight>>

-----------------------------------------------------------------------------
(* Strings *)

\* String.prototype.toLowerCase, letter by letter, for the letters used here.
lowerLetter(c) ==
  CASE c = "A" -> "a" [] c = "B" -> "b" [] c = "C" -> "c" [] c = "F" -> "f"
    [] c = "P" -> "p" [] c = "S" -> "s" [] c = "T" -> "t" [] OTHER -> c

RECURSIVE toLowerCase(_)
toLowerCase(s) ==
  IF s = "" THEN ""
  ELSE lowerLetter(SubSeq(s, 1, 1)) \o toLowerCase(SubSeq(s, 2, Len(s)))

\* String.prototype.includes
includes(s, term) ==
  \E i \in 1..(Len(s) - Len(term) + 1) : SubSeq(s, i, i + Len(term) - 1) = term

\* String.prototype.trim
RECURSIVE trimStart(_)
trimStart(s) ==
  IF s # "" /\ SubSeq(s, 1, 1) = " " THEN trimStart(SubSeq(s, 2, Len(s))) ELSE s

RECURSIVE trimEnd(_)
trimEnd(s) ==
  IF s # "" /\ SubSeq(s, Len(s), Len(s)) = " " THEN trimEnd(SubSeq(s, 1, Len(s) - 1)) ELSE s

Trim(s) == trimEnd(trimStart(s))

-----------------------------------------------------------------------------
(* Helpers of templateassign.js *)

isArray(a) == a # Undefined /\ a # NotArray

\* setsOverlap as it would be without the default parameters `= []`.
setsOverlapNoDefault(a, b) ==
  IF ~isArray(a) \/ ~isArray(b) THEN FALSE
  ELSE IF a = {} /\ b = {} THEN TRUE
  ELSE IF a = {} \/ b = {} THEN TRUE
  ELSE \E x \in a : x \in b

\* setsOverlap as it would be without line 76 (one empty side is no overlap).
setsOverlapIntersectOnly(a, b) ==
  LET aa == IF a = Undefined THEN {} ELSE a
      bb == IF b = Undefined THEN {} ELSE b
  IN IF ~isArray(aa) \/ ~isArray(bb) THEN FALSE
     ELSE IF aa = {} /\ bb = {} THEN TRUE
     ELSE \E x \in aa : x \in bb

\* function setsOverlap(a = [], b = []): a default parameter replaces undefined only.
setsOverlap(a, b) ==
  LET aa == IF a = Undefined THEN {} ELSE a
      bb == IF b = Undefined THEN {} ELSE b
  IN IF ~isArray(aa) \/ ~isArray(bb) THEN FALSE
     ELSE IF aa = {} /\ bb = {} THEN TRUE
     ELSE IF aa = {} \/ bb = {} THEN TRUE
     ELSE \E x \in aa : x \in bb

Result(st, deact) == [store |-> st, deactivated |-> deact]

\* The loop as it would be with a `break` after the first deactivation.
RECURSIVE enforceLoopBreak(_, _, _, _, _)
enforceLoopBreak(st, idx, i, template, deactivated) ==
  IF i > Len(idx) THEN Result(st, deactivated)
  ELSE LET id == idx[i] IN
    IF id = template.id \/ id \notin DOMAIN st \/ st[id].deleted \/ ~st[id].active
      THEN enforceLoopBreak(st, idx, i + 1, template, deactivated)
    ELSE IF /\ setsOverlap(template.assignedProjects, st[id].assignedProjects)
            /\ setsOverlap(template.assignedIssueTypes, st[id].assignedIssueTypes)
      THEN Result([st EXCEPT ![id].active = FALSE], Append(deactivated, id))
    ELSE enforceLoopBreak(st, idx, i + 1, template, deactivated)

\* The loop as it would be with deactivated.unshift(id) for deactivated.push(id).
RECURSIVE enforceLoopUnshift(_, _, _, _, _)
enforceLoopUnshift(st, idx, i, template, deactivated) ==
  IF i > Len(idx) THEN Result(st, deactivated)
  ELSE LET id == idx[i] IN
    IF id = template.id \/ id \notin DOMAIN st \/ st[id].deleted \/ ~st[id].active
      THEN enforceLoopUnshift(st, idx, i + 1, template, deactivated)
    ELSE IF /\ setsOverlap(template.assignedProjects, st[id].assignedProjects)
            /\ setsOverlap(template.assignedIssueTypes, st[id].assignedIssueTypes)
      THEN enforceLoopUnshift([st EXCEPT ![id].active = FALSE], idx, i + 1, template,
                              <<id>> \o deactivated)
    ELSE enforceLoopUnshift(st, idx, i + 1, template, deactivated)

\* The loop as it would be without `await storage.set(templateKey(id), other)`.
RECURSIVE enforceLoopNoSet(_, _, _, _, _)
enforceLoopNoSet(st, idx, i, template, deactivated) ==
  IF i > Len(idx) THEN Result(st, deactivated)
  ELSE LET id == idx[i] IN
    IF id = template.id \/ id \notin DOMAIN st \/ st[id].deleted \/ ~st[id].active
      THEN enforceLoopNoSet(st, idx, i + 1, template, deactivated)
    ELSE IF /\ setsOverlap(template.assignedProjects, st[id].assignedProjects)
            /\ setsOverlap(template.assignedIssueTypes, st[id].assignedIssueTypes)
      THEN enforceLoopNoSet(st, idx, i + 1, template, Append(deactivated, id))
    ELSE enforceLoopNoSet(st, idx, i + 1, template, deactivated)

\* The loop as it would be with `projectsOverlap || issueTypesOverlap`.
RECURSIVE enforceLoopEitherAxis(_, _, _, _, _)
enforceLoopEitherAxis(st, idx, i, template, deactivated) ==
  IF i > Len(idx) THEN Result(st, deactivated)
  ELSE LET id == idx[i] IN
    IF id = template.id \/ id \notin DOMAIN st \/ st[id].deleted \/ ~st[id].active
      THEN enforceLoopEitherAxis(st, idx, i + 1, template, deactivated)
    ELSE IF \/ setsOverlap(template.assignedProjects, st[id].assignedProjects)
            \/ setsOverlap(template.assignedIssueTypes, st[id].assignedIssueTypes)
      THEN enforceLoopEitherAxis([st EXCEPT ![id].active = FALSE], idx, i + 1, template,
                                 Append(deactivated, id))
    ELSE enforceLoopEitherAxis(st, idx, i + 1, template, deactivated)

\* The for-loop of enforceUniqueActiveTemplates, from position i of idx.
RECURSIVE enforceLoop(_, _, _, _, _)
enforceLoop(st, idx, i, template, deactivated) ==
  IF i > Len(idx) THEN Result(st, deactivated)
  ELSE LET id == idx[i] IN
    IF id = template.id THEN enforceLoop(st, idx, i + 1, template, deactivated)
    ELSE IF id \notin DOMAIN st \/ st[id].deleted
      THEN enforceLoop(st, idx, i + 1, template, deactivated)
    ELSE IF ~st[id].active THEN enforceLoop(st, idx, i + 1, template, deactivated)
    ELSE IF /\ setsOverlap(template.assignedProjects, st[id].assignedProjects)
            /\ setsOverlap(template.assignedIssueTypes, st[id].assignedIssueTypes)
      THEN enforceLoop([st EXCEPT ![id].active = FALSE], idx, i + 1, template,
                       Append(deactivated, id))
    ELSE enforceLoop(st, idx, i + 1, template, deactivated)

enforceUniqueActiveTemplates(st, idx, template) ==
  IF ~template.active THEN Result(st, <<>>)
  ELSE enforceLoop(st, idx, 1, template, <<>>)

\* `if (tpl.active) deactivated = await enforceUniqueActiveTemplates(tpl)` as it
\* would be if the handler returned without enforcing.
enforceNever(st, idx, tpl) == Result(st, <<>>)

\* let deactivated = []; if (tpl.active) { deactivated = await enforce...(tpl) }
enforceIfActive(st, idx, tpl) ==
  IF tpl.active THEN enforceUniqueActiveTemplates(st, idx, tpl) ELSE Result(st, <<>>)

-----------------------------------------------------------------------------
(* Responses *)

Resp(op, id, ok, err, deact, key, type, found) ==
  [op |-> op, id |-> id, ok |-> ok, err |-> err, deactivated |-> deact,
   key |-> key, type |-> type, found |-> found]

\* No response is pending: the resolver is ready for the next request.
Idle == Resp("idle", NoId, TRUE, "", <<>>, Missing, Missing, NoId)
Ready == last.op = "idle"

Ok(op, id, deact) == Resp(op, id, TRUE, "", deact, Missing, Missing, NoId)
Fail(op, id, err) == Resp(op, id, FALSE, err, <<>>, Missing, Missing, NoId)

\* `data: null`, and the data of a request that threw.
Null == [null |-> TRUE]

\* What Jira answers when asked for the caller's permissions in each project.
NoJira == [p \in Projects |-> [kind |-> "throws"]]

\* A request: the caller, Jira's answers to it and the payload.
Req(user, jira, args) == [user |-> user, jira |-> jira, args |-> args]
NoReq == Req(NoUser, NoJira, Null)

\* The handler returns (or throws): the response, the request it answers, its data.
Answer(response, request, d) ==
  /\ last' = response
  /\ req' = request
  /\ data' = d

\* Bound of RaceSpec: how many requests run concurrently.
NumRequests == 2
Requests == 1..NumRequests

\* The payload fields of a concurrent request.
Args(id, active, projects, issueTypes, hard) ==
  [id |-> id, active |-> active, projects |-> projects, issueTypes |-> issueTypes,
   hard |-> hard]
NoArgs == Args(NoId, FALSE, Undefined, Undefined, FALSE)

\* A request that has not reached the resolver yet.  pc is the storage call the
\* request makes next; tpl, idx, i, other and deactivated are the handler's locals;
\* alone tells that no other request was in flight while this one was.
Waiting ==
  [op |-> "none", args |-> NoArgs, pc |-> "idle", tpl |-> Null, idx |-> << >>, i |-> 0,
   other |-> Null, deactivated |-> << >>, ok |-> TRUE, err |-> "", alone |-> TRUE]
NoRequests == [r \in Requests |-> Waiting]

\* storage.get(templateKey(id)) returned a record
Stored(id) == id \in DOMAIN store
\* The lookup as it would be without `|| tpl.deleted`.
LiveOrDeleted(id) == id \in DOMAIN store
\* `!tpl || tpl.deleted` is false
Live(id) == Stored(id) /\ ~store[id].deleted

Put(st, id, rec) == [x \in (DOMAIN st) \cup {id} |-> IF x = id THEN rec ELSE st[x]]
Drop(st, id) == [x \in (DOMAIN st) \ {id} |-> st[x]]

\* idx.unshift(id)
\* idx.unshift(id) as it would be with idx.push(id).
UnshiftAtTail(idx, id) == Append(idx, id)

Unshift(idx, id) == <<id>> \o idx
\* idx.filter((tid) => tid !== id)
\* idx.filter((tid) => tid !== id) as it would be if it kept every id.
FilterOutNothing(idx, id) == idx

FilterOut(idx, id) == SelectSeq(idx, LAMBDA tid : tid # id)

\* Array.isArray(v) ? v.slice(0) : []
ArrayOrEmpty(v) == IF isArray(v) THEN v ELSE {}

\* The arrays a request supplies for an axis: the wildcard [] and one-element arrays.
ScopeInputs(S) == {{}} \cup {{x} : x \in S}
\* An optional axis of a payload: absent, not an array, or an array.
OptionalScope(S) == ScopeInputs(S) \cup {Undefined, NotArray}
\* payload.active of updateTemplate: absent, true or false.
ActiveInputs == {"absent", "true", "false"}
\* A projectKey or issueType of a lookup, possibly missing.
Keys(S) == S \cup {Missing}

-----------------------------------------------------------------------------
(* The permission helpers every module repeats *)

\* { allowAllUsers: false, admins: [] }: readGlobalConfig when nothing is stored.
DefaultConfig == [allowAllUsers |-> FALSE, admins |-> {}]

isAdminRequest(cfg, user) ==
  IF user = NoUser THEN FALSE
  ELSE IF user.accountId \in cfg.admins THEN TRUE
  ELSE user.isAdmin

\* A permission of Jira's answer: its key, whether the caller holds it, its name
\* (NoName where it has none).
NoName == ""
Permission(key, havePermission, name) ==
  [key |-> key, havePermission |-> havePermission, name |-> name]

\* The answers of Jira to /rest/api/3/mypermissions: the call throws (or res.json()
\* does), there is no response with a json function, the body has no permissions,
\* or the body has a permissions map.
JiraThrows        == [kind |-> "throws"]
JiraNoBody        == [kind |-> "nobody"]
JiraNoPermissions == [kind |-> "nopermissions"]
JiraPermissions(perms) == [kind |-> "permissions", permissions |-> perms]

\* isProjectAdmin as it would be with `return true` in the catch (fail open).
isProjectAdminFailOpen(jira, projectKey) ==
  IF projectKey = Missing THEN FALSE
  ELSE LET res == jira[projectKey] IN
    IF res.kind = "throws" THEN TRUE
    ELSE IF res.kind = "nobody" THEN FALSE
    ELSE LET perms == IF res.kind = "nopermissions" THEN {} ELSE res.permissions
         IN \E p \in perms :
              /\ p.havePermission
              /\ \/ p.key \in {"PROJECT_ADMIN", "ADMINISTER_PROJECTS", "PROJECT_ADMINISTER"}
                 \/ (p.name # NoName /\ includes(toLowerCase(p.name), "admin"))

\* isProjectAdmin of templateassign.js.
isProjectAdmin(jira, projectKey) ==
  IF projectKey = Missing THEN FALSE
  ELSE LET res == jira[projectKey] IN
    IF res.kind = "throws" THEN FALSE
    ELSE IF res.kind = "nobody" THEN FALSE
    ELSE LET perms == IF res.kind = "nopermissions" THEN {} ELSE res.permissions
         IN \E p \in perms :
              /\ p.havePermission
              /\ \/ p.key \in {"PROJECT_ADMIN", "ADMINISTER_PROJECTS", "PROJECT_ADMINISTER"}
                 \/ (p.name # NoName /\ includes(toLowerCase(p.name), "admin"))

\* isProjectAdmin of project-level.js: PROJECT_ADMINISTER is not among its keys.
\* isProjectAdmin of project-level.js as it would be if any held permission counted.
isProjectAdminAnyHeld(jira, projectKey) ==
  IF projectKey = Missing THEN FALSE
  ELSE LET res == jira[projectKey] IN
    IF res.kind = "throws" THEN FALSE
    ELSE IF res.kind = "nobody" THEN FALSE
    ELSE LET perms == IF res.kind = "nopermissions" THEN {} ELSE res.permissions
         IN \E p \in perms : p.havePermission

isProjectAdminOfProjectLevel(jira, projectKey) ==
  IF projectKey = Missing THEN FALSE
  ELSE LET res == jira[projectKey] IN
    IF res.kind = "throws" THEN FALSE
    ELSE IF res.kind = "nobody" THEN FALSE
    ELSE LET perms == IF res.kind = "nopermissions" THEN {} ELSE res.permissions
         IN \E p \in perms :
              /\ p.havePermission
              /\ \/ p.key = "PROJECT_ADMIN" \/ p.key = "ADMINISTER_PROJECTS"
                 \/ (p.name # NoName /\ includes(toLowerCase(p.name), "admin"))

\* if (!cfg.allowAllUsers && !isAdmin) throw ...: createTemplate.
mayCreate(cfg, user) == cfg.allowAllUsers \/ isAdminRequest(cfg, user)

\* if (!cfg.allowAllUsers && !isAdmin) { if (!user || tpl.owner !== user.accountId)
\* throw ... }: updateTemplate, deleteTemplate, assignTemplateToIssueTypes.
ownerOrAdmin(cfg, user, tpl) ==
  \/ cfg.allowAllUsers
  \/ isAdminRequest(cfg, user)
  \/ (user # NoUser /\ tpl.owner = user.accountId)

\* The permission block of assignTemplateToProjects: the owner, or a project admin
\* of ALL target projects.
mayAssignProjects(cfg, user, jira, tpl, projects) ==
  \/ cfg.allowAllUsers
  \/ isAdminRequest(cfg, user)
  \/ (user # NoUser /\ tpl.owner = user.accountId)
  \/ \A p \in projects : isProjectAdmin(jira, p)

\* Jira's answer, the same for every project.
Everywhere(answer) == [p \in Projects |-> answer]
\* Jira's answer to a caller who only browses the projects.
Denies == Everywhere(JiraPermissions({Permission("BROWSE_PROJECTS", TRUE, "Browse Projects")}))

-----------------------------------------------------------------------------
(* template.js *)

Init ==
  /\ store = << >>
  /\ index = << >>
  /\ nextId = 1
  /\ config = DefaultConfig
  /\ projectSettings = << >>
  /\ last = Idle
  /\ req = NoReq
  /\ data = Null
  /\ fa = {} /\ fb = {} /\ fkey = Missing /\ ftype = Missing
  /\ fout = [fn |-> "none", val |-> FALSE]
  /\ inflight = NoRequests

\* The record createTemplate stores: no active flag, no assignedProjects, no
\* assignedIssueTypes (payload.projects goes to a field `projects` that no handler reads).
NewTemplate(id, name, summary, content, owner) ==
  [id |-> id, name |-> name, summary |-> summary, content |-> content, owner |-> owner,
   active |-> FALSE, deleted |-> FALSE,
   assignedProjects |-> Undefined, assignedIssueTypes |-> Undefined]

\* validateCreatePayload: the name is a string that is not blank.
validateCreatePayload(name) == name # AbsentText /\ Trim(name) # ""

\* payload.summary ? String(payload.summary) : '' and payload.content || ''
OrEmpty(text) == IF text = AbsentText THEN "" ELSE text

CreateTemplate(user, name, summary, content) ==
  /\ Ready
  /\ nextId <= MaxIds
  /\ LET request == Req(user, NoJira, [name |-> name, summary |-> summary, content |-> content])
     IN IF ~validateCreatePayload(name)
        THEN /\ Answer(Fail("createTemplate", NoId, "validation"), request, Null)
             /\ UNCHANGED storeVars
        ELSE IF ~mayCreate(config, user)
        THEN /\ Answer(Fail("createTemplate", NoId, "auth"), request, Null)
             /\ UNCHANGED storeVars
        ELSE LET id == nextId
                 template == NewTemplate(id, Trim(name), OrEmpty(summary), OrEmpty(content),
                                         user.accountId)
             IN /\ store' = Put(store, id, template)
                /\ index' = Unshift(index, id)
                /\ nextId' = nextId + 1
                /\ Answer(Ok("createTemplate", id, <<>>), request, template)
  /\ UNCHANGED configVars
  /\ UNCHANGED pureVars
  /\ UNCHANGED raceVars

\* getTemplate returns the record stored under id, soft-deleted or not.
GetTemplate(id) ==
  /\ Ready
  /\ IF ~Stored(id)
     THEN Answer(Fail("getTemplate", id, "notfound"), Req(NoUser, NoJira, [id |-> id]), Null)
     ELSE Answer(Ok("getTemplate", id, <<>>), Req(NoUser, NoJira, [id |-> id]), store[id])
  /\ UNCHANGED storeVars
  /\ UNCHANGED configVars
  /\ UNCHANGED pureVars
  /\ UNCHANGED raceVars

Min(a, b) == IF a <= b THEN a ELSE b
Max(a, b) == IF a >= b THEN a ELSE b
\* arr.slice(start, start + limit)
Slice(arr, start, limit) == SubSeq(arr, start + 1, Min(Len(arr), start + limit))

\* The records of the ids, those ids that have a record: if (tpl) results.push(tpl).
RECURSIVE storedRecords(_, _)
storedRecords(st, ids) ==
  IF ids = << >> THEN << >>
  ELSE IF Head(ids) \in DOMAIN st
       THEN <<st[Head(ids)]>> \o storedRecords(st, Tail(ids))
       ELSE storedRecords(st, Tail(ids))

listTemplates(st, idx, page, limit) ==
  LET start == Max(0, (page - 1) * limit)
  IN [total |-> Len(idx), page |-> page, limit |-> limit,
      templates |-> storedRecords(st, Slice(idx, start, limit))]

ListTemplates(page, limit) ==
  /\ Ready
  /\ Answer(Ok("listTemplates", NoId, <<>>), Req(NoUser, NoJira, [page |-> page, limit |-> limit]),
            listTemplates(store, index, page, limit))
  /\ UNCHANGED storeVars
  /\ UNCHANGED configVars
  /\ UNCHANGED pureVars
  /\ UNCHANGED raceVars

-----------------------------------------------------------------------------
(* templateassign.js *)

\* What setTemplateActive writes once the record is found.
setTemplateActive(st, idx, id, active) ==
  LET tpl == [st[id] EXCEPT !.active = active]
  IN enforceIfActive(Put(st, id, tpl), idx, tpl)

\* setTemplateActive has no permission block.
SetTemplateActive(user, id, active) ==
  /\ Ready
  /\ LET request == Req(user, NoJira, [id |-> id, active |-> active])
     IN IF id = NoId
        THEN /\ Answer(Fail("setTemplateActive", id, "validation"), request, Null)
             /\ UNCHANGED storeVars
        ELSE IF ~Live(id)
        THEN /\ Answer(Fail("setTemplateActive", id, "notfound"), request, Null)
             /\ UNCHANGED storeVars
        ELSE LET r == setTemplateActive(store, index, id, active) IN
             /\ store' = r.store
             /\ Answer(Ok("setTemplateActive", id, r.deactivated), request, r.store[id])
             /\ UNCHANGED <<index, nextId>>
  /\ UNCHANGED configVars
  /\ UNCHANGED pureVars
  /\ UNCHANGED raceVars

\* The write as it would be without the test `issueTypes !== undefined`.
assignTemplateToProjectsBothAxes(st, idx, id, projects, issueTypes) ==
  LET t1  == [st[id] EXCEPT !.assignedProjects = projects]
      tpl == [t1 EXCEPT !.assignedIssueTypes = ArrayOrEmpty(issueTypes)]
  IN enforceIfActive(Put(st, id, tpl), idx, tpl)

\* What assignTemplateToProjects writes once validation, lookup and permission passed.
assignTemplateToProjects(st, idx, id, projects, issueTypes) ==
  LET t1  == [st[id] EXCEPT !.assignedProjects = projects]
      tpl == IF issueTypes # Undefined
             THEN [t1 EXCEPT !.assignedIssueTypes = ArrayOrEmpty(issueTypes)]
             ELSE t1
  IN enforceIfActive(Put(st, id, tpl), idx, tpl)

\* The handler as it would be with the write moved before the permission block.
AssignTemplateToProjectsWriteFirst(user, jira, id, projects, issueTypes) ==
  /\ Ready
  /\ LET request == Req(user, jira, [id |-> id, projects |-> projects,
                                     issueTypes |-> issueTypes])
     IN IF id = NoId
        THEN /\ Answer(Fail("assignTemplateToProjects", id, "validation"), request, Null)
             /\ UNCHANGED storeVars
        ELSE IF ~isArray(projects)
        THEN /\ Answer(Fail("assignTemplateToProjects", id, "validation"), request, Null)
             /\ UNCHANGED storeVars
        ELSE IF ~Live(id)
        THEN /\ Answer(Fail("assignTemplateToProjects", id, "notfound"), request, Null)
             /\ UNCHANGED storeVars
        ELSE LET r == assignTemplateToProjects(store, index, id, projects, issueTypes) IN
             /\ store' = r.store
             /\ UNCHANGED <<index, nextId>>
             /\ IF ~mayAssignProjects(config, user, jira, store[id], projects)
                THEN Answer(Fail("assignTemplateToProjects", id, "auth"), request, Null)
                ELSE Answer(Ok("assignTemplateToProjects", id, r.deactivated), request,
                            r.store[id])
  /\ UNCHANGED configVars
  /\ UNCHANGED pureVars
  /\ UNCHANGED raceVars

AssignTemplateToProjects(user, jira, id, projects, issueTypes) ==
  /\ Ready
  /\ LET request == Req(user, jira, [id |-> id, projects |-> projects,
                                     issueTypes |-> issueTypes])
     IN IF id = NoId
        THEN /\ Answer(Fail("assignTemplateToProjects", id, "validation"), request, Null)
             /\ UNCHANGED storeVars
        ELSE IF ~isArray(projects)
        THEN /\ Answer(Fail("assignTemplateToProjects", id, "validation"), request, Null)
             /\ UNCHANGED storeVars
        ELSE IF ~Live(id)
        THEN /\ Answer(Fail("assignTemplateToProjects", id, "notfound"), request, Null)
             /\ UNCHANGED storeVars
        ELSE IF ~mayAssignProjects(config, user, jira, store[id], projects)
        THEN /\ Answer(Fail("assignTemplateToProjects", id, "auth"), request, Null)
             /\ UNCHANGED storeVars
        ELSE LET r == assignTemplateToProjects(store, index, id, projects, issueTypes) IN
             /\ store' = r.store
             /\ Answer(Ok("assignTemplateToProjects", id, r.deactivated), request, r.store[id])
             /\ UNCHANGED <<index, nextId>>
  /\ UNCHANGED configVars
  /\ UNCHANGED pureVars
  /\ UNCHANGED raceVars

assignTemplateToIssueTypes(st, idx, id, issueTypes, projects) ==
  LET t1  == [st[id] EXCEPT !.assignedIssueTypes = issueTypes]
      tpl == IF projects # Undefined
             THEN [t1 EXCEPT !.assignedProjects = ArrayOrEmpty(projects)]
             ELSE t1
  IN enforceIfActive(Put(st, id, tpl), idx, tpl)

AssignTemplateToIssueTypes(user, id, issueTypes, projects) ==
  /\ Ready
  /\ LET request == Req(user, NoJira, [id |-> id, projects |-> projects,
                                       issueTypes |-> issueTypes])
     IN IF id = NoId
        THEN /\ Answer(Fail("assignTemplateToIssueTypes", id, "validation"), request, Null)
             /\ UNCHANGED storeVars
        ELSE IF ~isArray(issueTypes)
        THEN /\ Answer(Fail("assignTemplateToIssueTypes", id, "validation"), request, Null)
             /\ UNCHANGED storeVars
        ELSE IF ~Live(id)
        THEN /\ Answer(Fail("assignTemplateToIssueTypes", id, "notfound"), request, Null)
             /\ UNCHANGED storeVars
        ELSE IF ~ownerOrAdmin(config, user, store[id])
        THEN /\ Answer(Fail("assignTemplateToIssueTypes", id, "auth"), request, Null)
             /\ UNCHANGED storeVars
        ELSE LET r == assignTemplateToIssueTypes(store, index, id, issueTypes, projects) IN
             /\ store' = r.store
             /\ Answer(Ok("assignTemplateToIssueTypes", id, r.deactivated), request,
                       r.store[id])
             /\ UNCHANGED <<index, nextId>>
  /\ UNCHANGED configVars
  /\ UNCHANGED pureVars
  /\ UNCHANGED raceVars

\* The data as it would be with assignedIssueTypes read from tpl.assignedProjects.
getTemplateAssignmentsOneAxis(st, id) ==
  [assignedProjects   |-> IF st[id].assignedProjects = Undefined
                          THEN {} ELSE st[id].assignedProjects,
   assignedIssueTypes |-> IF st[id].assignedProjects = Undefined
                          THEN {} ELSE st[id].assignedProjects]

\* tpl.assignedProjects || [] : an absent axis reads as [].
getTemplateAssignments(st, id) ==
  [assignedProjects   |-> IF st[id].assignedProjects = Undefined
                          THEN {} ELSE st[id].assignedProjects,
   assignedIssueTypes |-> IF st[id].assignedIssueTypes = Undefined
                          THEN {} ELSE st[id].assignedIssueTypes]

GetTemplateAssignments(id) ==
  /\ Ready
  /\ LET request == Req(NoUser, NoJira, [id |-> id])
     IN IF id = NoId
        THEN Answer(Fail("getTemplateAssignments", id, "validation"), request, Null)
        ELSE IF ~Live(id)
        THEN Answer(Fail("getTemplateAssignments", id, "notfound"), request, Null)
        ELSE Answer(Ok("getTemplateAssignments", id, <<>>), request,
                    getTemplateAssignments(store, id))
  /\ UNCHANGED storeVars
  /\ UNCHANGED configVars
  /\ UNCHANGED pureVars
  /\ UNCHANGED raceVars

-----------------------------------------------------------------------------
(* globalpage.js *)

\* A payload of updateTemplate: every field may be absent.
UpdatePayload(name, summary, content, assignedProjects, assignedIssueTypes, active) ==
  [name |-> name, summary |-> summary, content |-> content,
   assignedProjects |-> assignedProjects, assignedIssueTypes |-> assignedIssueTypes,
   active |-> active]

\* const merged = { ...existing, ...updates, updatedAt }: a payload field that is
\* undefined leaves the stored field alone, a scope that is not an array becomes [].
Merged(existing, payload) ==
  [existing EXCEPT
     !.name               = IF payload.name # AbsentText THEN Trim(payload.name) ELSE @,
     !.summary            = IF payload.summary # AbsentText THEN payload.summary ELSE @,
     !.content            = IF payload.content # AbsentText THEN payload.content ELSE @,
     !.assignedProjects   = IF payload.assignedProjects # Undefined
                            THEN ArrayOrEmpty(payload.assignedProjects) ELSE @,
     !.assignedIssueTypes = IF payload.assignedIssueTypes # Undefined
                            THEN ArrayOrEmpty(payload.assignedIssueTypes) ELSE @,
     !.active             = IF payload.active = "true" THEN TRUE
                            ELSE IF payload.active = "false" THEN FALSE ELSE @]

UpdateTemplate(user, id, payload) ==
  /\ Ready
  /\ LET request == Req(user, NoJira, [id |-> id, payload |-> payload])
     IN IF id = NoId
        THEN /\ Answer(Fail("updateTemplate", id, "validation"), request, Null)
             /\ UNCHANGED storeVars
        ELSE IF ~Live(id)
        THEN /\ Answer(Fail("updateTemplate", id, "notfound"), request, Null)
             /\ UNCHANGED storeVars
        ELSE IF ~ownerOrAdmin(config, user, store[id])
        THEN /\ Answer(Fail("updateTemplate", id, "auth"), request, Null)
             /\ UNCHANGED storeVars
        ELSE LET merged == Merged(store[id], payload) IN
             /\ store' = Put(store, id, merged)
             /\ Answer(Ok("updateTemplate", id, <<>>), request, merged)
             /\ UNCHANGED <<index, nextId>>
  /\ UNCHANGED configVars
  /\ UNCHANGED pureVars
  /\ UNCHANGED raceVars

\* The hard delete as it would be without the rewrite of the index.
hardDeleteKeepIndex(st, idx, id) == [store |-> Drop(st, id), index |-> idx]

\* storage.delete(templateKey(id)); writeIndex(idx.filter((tid) => tid !== id))
hardDelete(st, idx, id) == [store |-> Drop(st, id), index |-> FilterOut(idx, id)]

\* The soft delete as it would be without `existing.active = false`.
softDeleteKeepActive(existing) == [existing EXCEPT !.deleted = TRUE]

\* existing.deleted = true; existing.active = false
softDelete(existing) == [existing EXCEPT !.deleted = TRUE, !.active = FALSE]

\* deleteTemplate looks the record up without `|| existing.deleted`: it also works
\* on a soft-deleted record.
DeleteTemplate(user, id, hard) ==
  /\ Ready
  /\ LET request == Req(user, NoJira, [id |-> id, hard |-> hard])
     IN IF id = NoId
        THEN /\ Answer(Fail("deleteTemplate", id, "validation"), request, Null)
             /\ UNCHANGED storeVars
        ELSE IF ~Stored(id)
        THEN /\ Answer(Fail("deleteTemplate", id, "notfound"), request, Null)
             /\ UNCHANGED storeVars
        ELSE IF ~ownerOrAdmin(config, user, store[id])
        THEN /\ Answer(Fail("deleteTemplate", id, "auth"), request, Null)
             /\ UNCHANGED storeVars
        ELSE IF hard
        THEN /\ store' = hardDelete(store, index, id).store
             /\ index' = hardDelete(store, index, id).index
             /\ Answer(Ok("deleteTemplateHard", id, <<>>), request, [id |-> id, deleted |-> TRUE])
             /\ UNCHANGED nextId
        ELSE /\ store' = Put(store, id, softDelete(store[id]))
             /\ Answer(Ok("deleteTemplateSoft", id, <<>>), request, [id |-> id, deleted |-> TRUE])
             /\ UNCHANGED <<index, nextId>>
  /\ UNCHANGED configVars
  /\ UNCHANGED pureVars
  /\ UNCHANGED raceVars

\* const clone = { ...existing, id: newId, name, owner, ..., deleted: false }: the
\* spread copies the active flag and the scope of `existing`.
Clone(existing, newId, newName, user) ==
  [existing EXCEPT
     !.id = newId,
     !.name = IF newName # AbsentText /\ Trim(newName) # ""
              THEN Trim(newName) ELSE existing.name \o " (copy)",
     !.owner = IF user # NoUser THEN user.accountId ELSE existing.owner,
     !.deleted = FALSE]

\* duplicateTemplate has no permission block.
DuplicateTemplate(user, id, newName) ==
  /\ Ready
  /\ nextId <= MaxIds
  /\ LET request == Req(user, NoJira, [id |-> id, newName |-> newName])
     IN IF id = NoId
        THEN /\ Answer(Fail("duplicateTemplate", id, "validation"), request, Null)
             /\ UNCHANGED storeVars
        ELSE IF ~Live(id)
        THEN /\ Answer(Fail("duplicateTemplate", id, "notfound"), request, Null)
             /\ UNCHANGED storeVars
        ELSE LET newId == nextId
                 clone == Clone(store[id], newId, newName, user)
             IN /\ store' = Put(store, newId, clone)
                /\ index' = Unshift(index, newId)
                /\ nextId' = nextId + 1
                /\ Answer(Ok("duplicateTemplate", newId, <<>>), request, clone)
  /\ UNCHANGED configVars
  /\ UNCHANGED pureVars
  /\ UNCHANGED raceVars

\* The loop as it would be if it tested tpl.projects, the field createTemplate
\* writes, in place of tpl.assignedProjects: every template matches every project.
RECURSIVE applicableLoopAnyProject(_, _, _, _, _)
applicableLoopAnyProject(st, idx, i, projectKey, issueType) ==
  IF i > Len(idx) THEN NoId
  ELSE LET id == idx[i] IN
    IF id \notin DOMAIN st \/ st[id].deleted \/ ~st[id].active
    THEN applicableLoopAnyProject(st, idx, i + 1, projectKey, issueType)
    ELSE LET assignedIssueTypes == ArrayOrEmpty(st[id].assignedIssueTypes)
             issueTypeMatch == assignedIssueTypes = {}
                               \/ (issueType # Missing /\ issueType \in assignedIssueTypes)
         IN IF issueTypeMatch THEN id
            ELSE applicableLoopAnyProject(st, idx, i + 1, projectKey, issueType)

\* The loop of the findApplicableTemplate handler.
RECURSIVE applicableLoop(_, _, _, _, _)
applicableLoop(st, idx, i, projectKey, issueType) ==
  IF i > Len(idx) THEN NoId
  ELSE LET id == idx[i] IN
    IF id \notin DOMAIN st \/ st[id].deleted \/ ~st[id].active
    THEN applicableLoop(st, idx, i + 1, projectKey, issueType)
    ELSE LET assignedProjects   == ArrayOrEmpty(st[id].assignedProjects)
             assignedIssueTypes == ArrayOrEmpty(st[id].assignedIssueTypes)
             projectMatch   == assignedProjects = {} \/ projectKey \in assignedProjects
             issueTypeMatch == assignedIssueTypes = {}
                               \/ (issueType # Missing /\ issueType \in assignedIssueTypes)
         IN IF projectMatch /\ issueTypeMatch THEN id
            ELSE applicableLoop(st, idx, i + 1, projectKey, issueType)

\* ok is FALSE where the handler throws 'projectKey is required'.
findApplicableTemplate(st, idx, projectKey, issueType) ==
  IF projectKey = Missing THEN [ok |-> FALSE, found |-> NoId]
  ELSE [ok |-> TRUE, found |-> applicableLoop(st, idx, 1, projectKey, issueType)]

FindApplicableTemplate(projectKey, issueType) ==
  /\ Ready
  /\ LET request == Req(NoUser, NoJira, [projectKey |-> projectKey, issueType |-> issueType])
         r == findApplicableTemplate(store, index, projectKey, issueType)
     IN IF ~r.ok
        THEN Answer(Fail("findApplicableTemplate", NoId, "validation"), request, Null)
        ELSE Answer(Resp("findApplicableTemplate", NoId, TRUE, "", <<>>, projectKey, issueType,
                         r.found),
                    request, IF r.found = NoId THEN Null ELSE store[r.found])
  /\ UNCHANGED storeVars
  /\ UNCHANGED configVars
  /\ UNCHANGED pureVars
  /\ UNCHANGED raceVars

\* The ids of the index a list handler keeps: those with a record that is not
\* soft-deleted and passes the handler's test (the ids in `passing`), in index order.
keep(st, idx, passing) ==
  SelectSeq(idx, LAMBDA id : id \in DOMAIN st /\ ~st[id].deleted /\ id \in passing)

\* The records stored under the ids.
Records(st, ids) == [i \in 1..Len(ids) |-> st[ids[i]]]

getTemplatesForProject(st, idx, projectKey) ==
  Records(st, keep(st, idx, { id \in DOMAIN st :
                               \/ st[id].assignedProjects = Undefined
                               \/ st[id].assignedProjects = {}
                               \/ projectKey \in st[id].assignedProjects }))

GetTemplatesForProject(projectKey) ==
  /\ Ready
  /\ LET request == Req(NoUser, NoJira, [projectKey |-> projectKey])
     IN IF projectKey = Missing
        THEN Answer(Fail("getTemplatesForProject", NoId, "validation"), request, Null)
        ELSE Answer(Ok("getTemplatesForProject", NoId, <<>>), request,
                    [templates |-> getTemplatesForProject(store, index, projectKey)])
  /\ UNCHANGED storeVars
  /\ UNCHANGED configVars
  /\ UNCHANGED pureVars
  /\ UNCHANGED raceVars

\* The loop of searchTemplatesByName: it stops once `limit` results are collected.
RECURSIVE searchLoop(_, _, _, _, _)
searchLoop(st, ids, term, limit, results) ==
  IF ids = << >> THEN results
  ELSE LET id == Head(ids) IN
    IF id \notin DOMAIN st \/ st[id].deleted THEN searchLoop(st, Tail(ids), term, limit, results)
    ELSE IF includes(toLowerCase(st[id].name), term)
    THEN LET more == Append(results, [id |-> id, name |-> st[id].name,
                                      summary |-> st[id].summary])
         IN IF Len(more) >= limit THEN more
            ELSE searchLoop(st, Tail(ids), term, limit, more)
    ELSE searchLoop(st, Tail(ids), term, limit, results)

searchTemplatesByName(st, idx, q, limit) ==
  LET term == toLowerCase(Trim(IF q = AbsentText THEN "" ELSE q))
  IN IF term = "" THEN << >> ELSE searchLoop(st, idx, term, limit, << >>)

SearchTemplatesByName(q, limit) ==
  /\ Ready
  /\ Answer(Ok("searchTemplatesByName", NoId, <<>>), Req(NoUser, NoJira, [q |-> q, limit |-> limit]),
            [templates |-> searchTemplatesByName(store, index, q, limit)])
  /\ UNCHANGED storeVars
  /\ UNCHANGED configVars
  /\ UNCHANGED pureVars
  /\ UNCHANGED raceVars

\* The keys under which listFilterProjects counts the record tpl.
filterKeys(tpl) ==
  IF ArrayOrEmpty(tpl.assignedProjects) = {} THEN {AllKey} ELSE tpl.assignedProjects

\* map[k]: how many records of the index, stored and not soft-deleted, count under k.
listFilterProjects(st, idx) ==
  LET counted == { i \in 1..Len(idx) : idx[i] \in DOMAIN st /\ ~st[idx[i]].deleted }
      keys    == UNION { filterKeys(st[idx[i]]) : i \in counted }
  IN [k \in keys |-> Cardinality({ i \in counted : k \in filterKeys(st[idx[i]]) })]

ListFilterProjects ==
  /\ Ready
  /\ Answer(Ok("listFilterProjects", NoId, <<>>), Req(NoUser, NoJira, Null),
            [counts |-> listFilterProjects(store, index)])
  /\ UNCHANGED storeVars
  /\ UNCHANGED configVars
  /\ UNCHANGED pureVars
  /\ UNCHANGED raceVars

filterTemplatesByProject(st, idx, projectKey, page, limit) ==
  LET results == Records(st, keep(st, idx, { id \in DOMAIN st :
                   LET projects == ArrayOrEmpty(st[id].assignedProjects)
                   IN IF projectKey = AllKey THEN projects = {}
                      ELSE projects = {} \/ projectKey \in projects }))
      start == Max(0, (page - 1) * limit)
  IN [total |-> Len(results), page |-> page, limit |-> limit,
      templates |-> Slice(results, start, limit)]

FilterTemplatesByProject(projectKey, page, limit) ==
  /\ Ready
  /\ LET request == Req(NoUser, NoJira, [projectKey |-> projectKey, page |-> page,
                                         limit |-> limit])
     IN IF projectKey = Missing
        THEN Answer(Fail("filterTemplatesByProject", NoId, "validation"), request, Null)
        ELSE Answer(Ok("filterTemplatesByProject", NoId, <<>>), request,
                    filterTemplatesByProject(store, index, projectKey, page, limit))
  /\ UNCHANGED storeVars
  /\ UNCHANGED configVars
  /\ UNCHANGED pureVars
  /\ UNCHANGED raceVars

-----------------------------------------------------------------------------
(* applytemplate.js *)

\* The matching test as it would be with `!issueType ||` for `issueType &&`.
templateMatchesLax(tpl, projectKey, issueType) ==
  LET assignedProjects   == ArrayOrEmpty(tpl.assignedProjects)
      assignedIssueTypes == ArrayOrEmpty(tpl.assignedIssueTypes)
  IN /\ assignedProjects = {} \/ projectKey \in assignedProjects
     /\ assignedIssueTypes = {} \/ issueType = Missing \/ issueType \in assignedIssueTypes

\* The matching test as it would be without the issue-type half of the condition.
templateMatchesAnyType(tpl, projectKey, issueType) ==
  LET assignedProjects == ArrayOrEmpty(tpl.assignedProjects)
  IN assignedProjects = {} \/ projectKey \in assignedProjects

\* The matching test of the loop of findMatchingTemplate, for one record.
templateMatches(tpl, projectKey, issueType) ==
  LET assignedProjects   == ArrayOrEmpty(tpl.assignedProjects)
      assignedIssueTypes == ArrayOrEmpty(tpl.assignedIssueTypes)
      projectMatch   == assignedProjects = {} \/ projectKey \in assignedProjects
      issueTypeMatch == assignedIssueTypes = {}
                        \/ (issueType # Missing /\ issueType \in assignedIssueTypes)
  IN projectMatch /\ issueTypeMatch

\* `if (!tpl || tpl.deleted || !tpl.active) continue` as it would be without
\* `|| !tpl.active`.
skipsAnyActive(st, id) == id \notin DOMAIN st \/ st[id].deleted

\* if (!tpl || tpl.deleted || !tpl.active) continue
skips(st, id) == id \notin DOMAIN st \/ st[id].deleted \/ ~st[id].active

RECURSIVE findLoop(_, _, _, _, _)
findLoop(st, idx, i, projectKey, issueType) ==
  IF i > Len(idx) THEN NoId
  ELSE LET id == idx[i] IN
    IF skips(st, id) THEN findLoop(st, idx, i + 1, projectKey, issueType)
    ELSE IF templateMatches(st[id], projectKey, issueType) THEN id
    ELSE findLoop(st, idx, i + 1, projectKey, issueType)

\* The id of the record returned, NoId for null.
findMatchingTemplate(st, idx, projectKey, issueType) ==
  IF projectKey = Missing THEN NoId
  ELSE findLoop(st, idx, 1, projectKey, issueType)

\* `null` where a string is expected.
NullText == "<null>"

\* The data as it would be with `.length === 0` tested without the trim().
computePrefillNoTrim(tpl, currentSummary, currentDescription) ==
  LET summaryFromTpl == IF tpl.summary # "" /\ Len(Trim(tpl.summary)) > 0
                        THEN tpl.summary ELSE NullText
      descFromTpl    == IF tpl.content # "" /\ Len(Trim(tpl.content)) > 0
                        THEN tpl.content ELSE NullText
  IN [templateId       |-> tpl.id,
      summary          |-> summaryFromTpl,
      description      |-> descFromTpl,
      applySummary     |-> summaryFromTpl # NullText /\ Len(OrEmpty(currentSummary)) = 0,
      applyDescription |-> descFromTpl # NullText /\ Len(OrEmpty(currentDescription)) = 0,
      templateName     |-> tpl.name]

\* The data getPrefillForCreateIssue returns for the template it found.  The
\* destructuring default '' and `currentSummary || ''` both turn an absent value
\* into the empty string.
computePrefill(tpl, currentSummary, currentDescription) ==
  LET summaryFromTpl == IF tpl.summary # "" /\ Len(Trim(tpl.summary)) > 0
                        THEN tpl.summary ELSE NullText
      descFromTpl    == IF tpl.content # "" /\ Len(Trim(tpl.content)) > 0
                        THEN tpl.content ELSE NullText
  IN [templateId       |-> tpl.id,
      summary          |-> summaryFromTpl,
      description      |-> descFromTpl,
      applySummary     |-> summaryFromTpl # NullText /\ Len(Trim(OrEmpty(currentSummary))) = 0,
      applyDescription |-> descFromTpl # NullText
                           /\ Len(Trim(OrEmpty(currentDescription))) = 0,
      templateName     |-> tpl.name]

GetPrefillForCreateIssue(projectKey, issueType, currentSummary, currentDescription) ==
  /\ Ready
  /\ LET found == findMatchingTemplate(store, index, projectKey, issueType)
     IN Answer(Resp("getPrefillForCreateIssue", NoId, TRUE, "", <<>>, projectKey, issueType,
                    found),
               Req(NoUser, NoJira, [projectKey |-> projectKey, issueType |-> issueType,
                                    currentSummary |-> currentSummary,
                                    currentDescription |-> currentDescription]),
               IF found = NoId THEN Null
               ELSE computePrefill(store[found], currentSummary, currentDescription))
  /\ UNCHANGED storeVars
  /\ UNCHANGED configVars
  /\ UNCHANGED pureVars
  /\ UNCHANGED raceVars

-----------------------------------------------------------------------------
(* project-level.js *)

\* map[projectKey] || { enabled: true }
getProjectConfig(settings, projectKey) ==
  [projectKey |-> projectKey,
   useGlobalTemplates |-> IF projectKey \in DOMAIN settings THEN settings[projectKey]
                          ELSE TRUE]

GetProjectConfig(projectKey) ==
  /\ Ready
  /\ LET request == Req(NoUser, NoJira, [projectKey |-> projectKey])
     IN IF projectKey = Missing
        THEN Answer(Fail("getProjectConfig", NoId, "validation"), request, Null)
        ELSE Answer(Ok("getProjectConfig", NoId, <<>>), request,
                    getProjectConfig(projectSettings, projectKey))
  /\ UNCHANGED storeVars
  /\ UNCHANGED configVars
  /\ UNCHANGED pureVars
  /\ UNCHANGED raceVars

\* map[projectKey] = { enabled: Boolean(enabled) }
WithProject(settings, projectKey, enabled) ==
  [k \in (DOMAIN settings) \cup {projectKey} |->
     IF k = projectKey THEN enabled ELSE settings[k]]

SetProjectUseGlobalTemplates(user, jira, projectKey, enabled) ==
  /\ Ready
  /\ LET request == Req(user, jira, [projectKey |-> projectKey, enabled |-> enabled])
     IN IF projectKey = Missing
        THEN /\ Answer(Fail("setProjectUseGlobalTemplates", NoId, "validation"), request, Null)
             /\ UNCHANGED configVars
        ELSE IF /\ ~config.allowAllUsers
                /\ ~isAdminRequest(config, user)
                /\ ~isProjectAdminOfProjectLevel(jira, projectKey)
        THEN /\ Answer(Fail("setProjectUseGlobalTemplates", NoId, "auth"), request, Null)
             /\ UNCHANGED configVars
        ELSE /\ projectSettings' = WithProject(projectSettings, projectKey, enabled)
             /\ Answer(Ok("setProjectUseGlobalTemplates", NoId, <<>>), request,
                       [projectKey |-> projectKey, useGlobalTemplates |-> enabled])
             /\ UNCHANGED config
  /\ UNCHANGED storeVars
  /\ UNCHANGED pureVars
  /\ UNCHANGED raceVars

getAssignedTemplatesForProject(st, idx, projectKey) ==
  LET ids == keep(st, idx, { id \in DOMAIN st :
               LET projects == ArrayOrEmpty(st[id].assignedProjects)
               IN projects = {} \/ projectKey \in projects })
  IN [i \in 1..Len(ids) |->
        [id |-> st[ids[i]].id, name |-> st[ids[i]].name,
         assignedIssueTypes |-> IF st[ids[i]].assignedIssueTypes = Undefined THEN {}
                                ELSE st[ids[i]].assignedIssueTypes]]

GetAssignedTemplatesForProject(projectKey) ==
  /\ Ready
  /\ LET request == Req(NoUser, NoJira, [projectKey |-> projectKey])
     IN IF projectKey = Missing
        THEN Answer(Fail("getAssignedTemplatesForProject", NoId, "validation"), request, Null)
        ELSE Answer(Ok("getAssignedTemplatesForProject", NoId, <<>>), request,
                    [templates |-> getAssignedTemplatesForProject(store, index, projectKey)])
  /\ UNCHANGED storeVars
  /\ UNCHANGED configVars
  /\ UNCHANGED pureVars
  /\ UNCHANGED raceVars

-----------------------------------------------------------------------------
(* adminconfigpage.js *)

\* const next = { ...cfg }; the two fields are replaced where the payload has them
\* (admins only when it is an array).
nextConfig(cfg, allowAllUsers, admins) ==
  [allowAllUsers |-> IF allowAllUsers = "true" THEN TRUE
                     ELSE IF allowAllUsers = "false" THEN FALSE ELSE cfg.allowAllUsers,
   admins        |-> IF isArray(admins) THEN admins ELSE cfg.admins]

SetGlobalConfig(user, allowAllUsers, admins) ==
  /\ Ready
  /\ LET request == Req(user, NoJira, [allowAllUsers |-> allowAllUsers, admins |-> admins])
     IN IF ~isAdminRequest(config, user)
        THEN /\ Answer(Fail("setGlobalConfig", NoId, "auth"), request, Null)
             /\ UNCHANGED configVars
        ELSE LET next == nextConfig(config, allowAllUsers, admins) IN
             /\ config' = next
             /\ Answer(Ok("setGlobalConfig", NoId, <<>>), request, next)
             /\ UNCHANGED projectSettings
  /\ UNCHANGED storeVars
  /\ UNCHANGED pureVars
  /\ UNCHANGED raceVars

SetProjectEnabled(user, projectKey, enabled) ==
  /\ Ready
  /\ LET request == Req(user, NoJira, [projectKey |-> projectKey, enabled |-> enabled])
     IN IF ~isAdminRequest(config, user)
        THEN /\ Answer(Fail("setProjectEnabled", NoId, "auth"), request, Null)
             /\ UNCHANGED configVars
        ELSE IF projectKey = Missing
        THEN /\ Answer(Fail("setProjectEnabled", NoId, "validation"), request, Null)
             /\ UNCHANGED configVars
        ELSE /\ projectSettings' = WithProject(projectSettings, projectKey, enabled)
             /\ Answer(Ok("setProjectEnabled", NoId, <<>>), request,
                       [projectKey |-> projectKey, enabled |-> enabled])
             /\ UNCHANGED config
  /\ UNCHANGED storeVars
  /\ UNCHANGED pureVars
  /\ UNCHANGED raceVars

-----------------------------------------------------------------------------
\* The response reaches the caller; the resolver takes the next request.
Respond ==
  /\ ~Ready
  /\ Answer(Idle, NoReq, Null)
  /\ UNCHANGED storeVars
  /\ UNCHANGED configVars
  /\ UNCHANGED pureVars
  /\ UNCHANGED raceVars

\* A payload of updateTemplate that leaves name, summary and content alone.
ScopeUpdate(assignedProjects, assignedIssueTypes, active) ==
  UpdatePayload(AbsentText, AbsentText, AbsentText, assignedProjects, assignedIssueTypes, active)

(* Spec: the template handlers, one request at a time, from the empty store and   *)
(* under the global config the storage starts with.  The caller is Root, an admin, *)
(* or Bob, who is none, where a handler can refuse him.                            *)
Next ==
  \/ \E user \in {Root, Bob} : CreateTemplate(user, "Tpl", "Fix", AbsentText)
  \/ CreateTemplate(Root, " ", AbsentText, AbsentText)
  \/ \E id \in Ids, active \in BOOLEAN : SetTemplateActive(Root, id, active)
  \/ \E id \in Ids, p \in ScopeInputs(Projects), t \in OptionalScope(IssueTypes) :
       AssignTemplateToProjects(Root, NoJira, id, p, t)
  \/ \E id \in Ids : \/ AssignTemplateToProjects(Root, NoJira, id, NotArray, Undefined)
                     \/ AssignTemplateToProjects(Bob, Denies, id, {"X"}, Undefined)
  \/ \E id \in Ids, t \in ScopeInputs(IssueTypes), p \in OptionalScope(Projects) :
       AssignTemplateToIssueTypes(Root, id, t, p)
  \/ \E id \in Ids : \/ AssignTemplateToIssueTypes(Root, id, NotArray, Undefined)
                     \/ AssignTemplateToIssueTypes(Bob, id, {}, Undefined)
  \/ \E id \in Ids, p \in OptionalScope(Projects), t \in OptionalScope(IssueTypes),
        a \in ActiveInputs :
       UpdateTemplate(Root, id, ScopeUpdate(p, t, a))
  \/ \E id \in Ids : UpdateTemplate(Bob, id, ScopeUpdate(Undefined, Undefined, "true"))
  \/ \E id \in Ids, hard \in BOOLEAN, user \in {Root, Bob} : DeleteTemplate(user, id, hard)
  \/ \E id \in Ids : DuplicateTemplate(Root, id, AbsentText)
  \/ \E k \in Keys(Projects), t \in Keys(IssueTypes) :
       GetPrefillForCreateIssue(k, t, AbsentText, AbsentText)
  \/ \E k \in Keys(Projects), t \in Keys(IssueTypes) : FindApplicableTemplate(k, t)
  \/ \E id \in Ids : GetTemplate(id)
  \/ \E id \in Ids : GetTemplateAssignments(id)
  \/ \E limit \in {1, 50} : ListTemplates(1, limit)
  \/ \E k \in Projects : GetTemplatesForProject(k)
  \/ \E k \in Projects : GetAssignedTemplatesForProject(k)
  \/ \E k \in Projects \cup {AllKey} : FilterTemplatesByProject(k, 1, 50)
  \/ \E q \in {"TPL", "copy"} : SearchTemplatesByName(q, 10)
  \/ ListFilterProjects
  \/ Respond

Spec == Init /\ [][Next]_vars

-----------------------------------------------------------------------------
(* EnforceSpec: the handlers that run the enforcement, from every store of up to   *)
(* NumTemplates templates whose scopes have been assigned.  Each such store is one *)
(* the handlers produce: createTemplate for the ids, assignTemplateToProjects with *)
(* both axes for the scopes, updateTemplate {active: true} for the flags, a soft   *)
(* deleteTemplate (which clears active) for a deleted record and a hard one for a  *)
(* missing id.  The enforcement skips a deleted record before it reads its scope,  *)
(* so one deleted record stands for all.                                           *)

RECURSIVE Descending(_)
Descending(S) ==
  IF S = {} THEN << >>
  ELSE LET m == CHOOSE x \in S : \A y \in S : y <= x
       IN <<m>> \o Descending(S \ {m})

Shapes ==
  [active : BOOLEAN, deleted : {FALSE},
   assignedProjects : ScopeInputs(Projects), assignedIssueTypes : ScopeInputs(IssueTypes)]
  \cup [active : {FALSE}, deleted : {TRUE}, assignedProjects : {{}}, assignedIssueTypes : {{}}]

EnforceInit ==
  /\ \E S \in SUBSET StoreIds : \E f \in [S -> Shapes] :
       /\ store = [i \in S |->
                    [NewTemplate(i, "Tpl", "Fix", "", Root.accountId) EXCEPT
                       !.active = f[i].active, !.deleted = f[i].deleted,
                       !.assignedProjects = f[i].assignedProjects,
                       !.assignedIssueTypes = f[i].assignedIssueTypes]]
       /\ index = Descending(S)
  /\ nextId = NumTemplates + 1
  /\ config = DefaultConfig
  /\ projectSettings = << >>
  /\ last = Idle
  /\ req = NoReq
  /\ data = Null
  /\ fa = {} /\ fb = {} /\ fkey = Missing /\ ftype = Missing
  /\ fout = [fn |-> "none", val |-> FALSE]
  /\ inflight = NoRequests

EnforceNext ==
  \/ \E id \in StoreIds, active \in BOOLEAN : SetTemplateActive(Root, id, active)
  \/ \E id \in StoreIds, p \in ScopeInputs(Projects) :
       AssignTemplateToProjects(Root, NoJira, id, p, Undefined)
  \/ \E id \in StoreIds, t \in ScopeInputs(IssueTypes) :
       AssignTemplateToIssueTypes(Root, id, t, Undefined)
  \/ Respond

EnforceSpec == EnforceInit /\ [][EnforceNext]_vars

-----------------------------------------------------------------------------
(* PureSpec: the pure helpers applied to arguments drawn from bounded sets. *)

PureVals == {"X", "Y"}
\* An axis as a helper can receive it: absent, not an array, or an array.
PureArgs == (SUBSET PureVals) \cup {Undefined, NotArray}

\* A store holding one active template with the scope (projects, issueTypes).
OneTemplate(projects, issueTypes) ==
  Put(<< >>, 1, [NewTemplate(1, "Tpl", "Fix", "", Root.accountId) EXCEPT
                   !.active = TRUE,
                   !.assignedProjects = projects,
                   !.assignedIssueTypes = issueTypes])

PureInit ==
  /\ store = << >> /\ index = << >> /\ nextId = 1
  /\ config = DefaultConfig /\ projectSettings = << >>
  /\ last = Idle /\ req = NoReq /\ data = Null
  /\ fa \in PureArgs /\ fb \in PureArgs
  /\ fkey \in Keys(PureVals) /\ ftype \in Keys(PureVals)
  /\ fout = [fn |-> "none", val |-> FALSE]
  /\ inflight = NoRequests

ApplySetsOverlap ==
  /\ fout' = [fn |-> "setsOverlap", val |-> setsOverlap(fa, fb)]
  /\ UNCHANGED <<store, index, nextId, config, projectSettings, last, req, data>>
  /\ UNCHANGED <<fa, fb, fkey, ftype>>
  /\ UNCHANGED raceVars

\* findMatchingTemplate(fkey, ftype) over a store whose one template has scope (fa, fb).
ApplyFindMatchingTemplate ==
  /\ fa # NotArray /\ fb # NotArray
  /\ fout' = [fn |-> "findMatchingTemplate",
              val |-> findMatchingTemplate(OneTemplate(fa, fb), <<1>>, fkey, ftype) = 1]
  /\ UNCHANGED <<store, index, nextId, config, projectSettings, last, req, data>>
  /\ UNCHANGED <<fa, fb, fkey, ftype>>
  /\ UNCHANGED raceVars

ApplyFindApplicableTemplate ==
  /\ fa # NotArray /\ fb # NotArray
  /\ fout' = [fn |-> "findApplicableTemplate",
              val |-> findApplicableTemplate(OneTemplate(fa, fb), <<1>>, fkey, ftype).found = 1]
  /\ UNCHANGED <<store, index, nextId, config, projectSettings, last, req, data>>
  /\ UNCHANGED <<fa, fb, fkey, ftype>>
  /\ UNCHANGED raceVars

PureNext ==
  \/ ApplySetsOverlap
  \/ ApplyFindMatchingTemplate
  \/ ApplyFindApplicableTemplate

PureSpec == PureInit /\ [][PureNext]_vars

-----------------------------------------------------------------------------
(* AuthSpec: one request to a handler that writes, made by an admin, an owner, a   *)
(* plain user or nobody, in every state of up to MaxIds templates and under every  *)
(* global config.  Each such state is one the handlers produce: Root, whose        *)
(* context carries an admin flag, sets the config, Bob creates a template while    *)
(* allowAllUsers is set, updateTemplate sets scope and active flag, deleteTemplate *)
(* removes or soft-deletes a record.                                               *)

\* The callers of a request.
Callers == {Root, Bob, Carol, NoUser}

\* What Jira answers to a caller who is no project admin, and to one who is.
JiraAnswers ==
  {JiraThrows, JiraNoBody, JiraNoPermissions, JiraPermissions({})}
  \cup { JiraPermissions({Permission(key, have, NoName)}) :
           key \in {"PROJECT_ADMIN", "PROJECT_ADMINISTER", "BROWSE_PROJECTS"},
           have \in BOOLEAN }
  \cup { JiraPermissions({Permission("BROWSE_PROJECTS", have, name)}) :
           have \in BOOLEAN, name \in {"Browse Projects", "Site Admin"} }

AuthShapes ==
  [active : BOOLEAN, deleted : {FALSE}, owner : {Root.accountId, Bob.accountId},
   assignedProjects : {{}, {"X"}}]
  \cup [active : {FALSE}, deleted : {TRUE}, owner : {Root.accountId},
        assignedProjects : {{}}]

AuthInit ==
  /\ nextId \in 1..(MaxIds + 1)
  /\ \E S \in SUBSET (1..(nextId - 1)) : \E f \in [S -> AuthShapes] :
       /\ store = [i \in S |->
                    [NewTemplate(i, "Tpl", "Fix", "", f[i].owner) EXCEPT
                       !.active = f[i].active, !.deleted = f[i].deleted,
                       !.assignedProjects = f[i].assignedProjects,
                       !.assignedIssueTypes = {}]]
       /\ index = Descending(S)
  /\ config \in [allowAllUsers : BOOLEAN, admins : {{}, {Bob.accountId}}]
  /\ projectSettings \in {<< >>, WithProject(<< >>, "X", FALSE)}
  /\ last = Idle
  /\ req = NoReq
  /\ data = Null
  /\ fa = {} /\ fb = {} /\ fkey = Missing /\ ftype = Missing
  /\ fout = [fn |-> "none", val |-> FALSE]
  /\ inflight = NoRequests

AuthNext ==
  \/ \E user \in Callers : CreateTemplate(user, "Tpl", "Fix", AbsentText)
  \/ CreateTemplate(Root, " ", AbsentText, AbsentText)
  \/ \E user \in Callers, id \in Ids, active \in BOOLEAN : SetTemplateActive(user, id, active)
  \/ SetTemplateActive(Root, NoId, TRUE)
  \/ \E user \in {Root, Bob, NoUser}, id \in Ids, p \in {{}, {"Y"}, NotArray} :
       AssignTemplateToProjects(user, NoJira, id, p, Undefined)
  \/ \E id \in Ids, answer \in JiraAnswers :
       AssignTemplateToProjects(Carol, Everywhere(answer), id, {"X"}, Undefined)
  \/ \E user \in Callers, id \in Ids, t \in {{}, NotArray} :
       AssignTemplateToIssueTypes(user, id, t, Undefined)
  \/ \E user \in Callers, id \in Ids, a \in {"true", "false"} :
       UpdateTemplate(user, id, ScopeUpdate(Undefined, Undefined, a))
  \/ \E user \in Callers, id \in Ids, hard \in BOOLEAN : DeleteTemplate(user, id, hard)
  \/ \E user \in {Bob, NoUser}, id \in Ids \cup {NoId} :
       DuplicateTemplate(user, id, AbsentText)
  \/ \E user \in Callers, a \in {"true", "false"} : SetGlobalConfig(user, a, Undefined)
  \/ \E user \in {Root, Bob}, admins \in {{}, {Bob.accountId}} :
       SetGlobalConfig(user, "absent", admins)
  \/ \E user \in Callers, k \in {"X", Missing} : SetProjectEnabled(user, k, FALSE)
  \/ \E user \in Callers, answer \in JiraAnswers :
       SetProjectUseGlobalTemplates(user, Everywhere(answer), "X", FALSE)
  \/ SetProjectUseGlobalTemplates(Root, NoJira, Missing, FALSE)
  \/ \E k \in {"X", Missing} : GetProjectConfig(k)

AuthSpec == AuthInit /\ [][AuthNext]_vars

-----------------------------------------------------------------------------
(* PrefillSpec: getPrefillForCreateIssue from every store of one template whose   *)
(* summary and content are drawn from Texts (createTemplate stores them as given, *)
(* setTemplateActive makes the template active).                                  *)

PrefillInit ==
  /\ \E summary \in Texts, content \in Texts, active \in BOOLEAN :
       store = Put(<< >>, 1, [NewTemplate(1, "Tpl", summary, content, Root.accountId)
                                EXCEPT !.active = active])
  /\ index = <<1>>
  /\ nextId = 2
  /\ config = DefaultConfig
  /\ projectSettings = << >>
  /\ last = Idle
  /\ req = NoReq
  /\ data = Null
  /\ fa = {} /\ fb = {} /\ fkey = Missing /\ ftype = Missing
  /\ fout = [fn |-> "none", val |-> FALSE]
  /\ inflight = NoRequests

PrefillNext ==
  \/ \E k \in {"X", Missing}, currentSummary \in Texts \cup {AbsentText},
        currentDescription \in Texts \cup {AbsentText} :
       GetPrefillForCreateIssue(k, Missing, currentSummary, currentDescription)
  \/ Respond

PrefillSpec == PrefillInit /\ [][PrefillNext]_vars

-----------------------------------------------------------------------------
(* RaceSpec: concurrent requests.  Each `await storage.get / set / delete` of a  *)
(* handler is one atomic step and the steps of different requests interleave.     *)
(* A handler keeps the record it read in a local (tpl, existing, other) and later *)
(* writes that whole record back.  The caller is a global admin: the reads of the *)
(* global config, which no request of RaceSpec writes, are folded into the step   *)
(* before them.  The store starts with MaxIds templates, as the handlers leave   *)
(* them when they run one at a time and every activation is enforced: no two      *)
(* active templates overlap.                                                      *)

InFlight(r) == inflight[r].pc \notin {"idle", "done"}

\* Request r makes its first storage call and becomes rec: it is alone unless some
\* other request is in flight, which then is not alone either.
Begun(r, rec) ==
  LET others == \E q \in Requests \ {r} : InFlight(q)
  IN [q \in Requests |->
        IF q = r THEN [rec EXCEPT !.alone = ~others]
        ELSE IF InFlight(q) THEN [inflight[q] EXCEPT !.alone = FALSE]
        ELSE inflight[q]]

Thrown(op, args, err) ==
  [Waiting EXCEPT !.op = op, !.args = args, !.pc = "done", !.ok = FALSE, !.err = err]

\* The handlers that start with `await storage.get(templateKey(id))`.
LookupOps ==
  {"setTemplateActive", "assignTemplateToProjects", "assignTemplateToIssueTypes",
   "updateTemplate", "deleteTemplate", "duplicateTemplate"}

\* const tpl = await storage.get(templateKey(id)); if (!tpl || tpl.deleted) throw ...
\* (deleteTemplate: if (!existing) throw ...)
RaceGet(r, op, args) ==
  /\ inflight[r].pc = "idle"
  /\ op \in LookupOps
  /\ LET found  == args.id \in DOMAIN store
         refuse == ~found \/ (op # "deleteTemplate" /\ store[args.id].deleted)
     IN inflight' = Begun(r, IF refuse THEN Thrown(op, args, "notfound")
                             ELSE [Waiting EXCEPT !.op = op, !.args = args,
                                                  !.pc = "write", !.tpl = store[args.id]])
  /\ UNCHANGED <<store, index, nextId, config, projectSettings, last, req, data>>
  /\ UNCHANGED pureVars

\* createTemplate: await storage.set(templateKey(id), template)
RaceCreate(r) ==
  /\ inflight[r].pc = "idle"
  /\ LET template == NewTemplate(nextId, "Tpl", "Fix", "", Root.accountId)
     IN /\ store' = Put(store, nextId, template)
        /\ inflight' = Begun(r, [Waiting EXCEPT !.op = "createTemplate",
                                                !.args = [NoArgs EXCEPT !.id = nextId],
                                                !.pc = "readIndex", !.tpl = template])
  /\ nextId' = nextId + 1
  /\ UNCHANGED <<index, config, projectSettings, last, req, data>>
  /\ UNCHANGED pureVars

\* The record a handler writes back, from the record it read.
Rewritten(op, args, tpl, newId) ==
  CASE op = "setTemplateActive" -> [tpl EXCEPT !.active = args.active]
    [] op = "assignTemplateToProjects" ->
         [tpl EXCEPT !.assignedProjects = args.projects,
                     !.assignedIssueTypes = IF args.issueTypes # Undefined
                                            THEN ArrayOrEmpty(args.issueTypes) ELSE @]
    [] op = "assignTemplateToIssueTypes" ->
         [tpl EXCEPT !.assignedIssueTypes = args.issueTypes,
                     !.assignedProjects = IF args.projects # Undefined
                                          THEN ArrayOrEmpty(args.projects) ELSE @]
    [] op = "updateTemplate" ->
         Merged(tpl, ScopeUpdate(args.projects, args.issueTypes,
                                 IF args.active THEN "true" ELSE "false"))
    [] op = "deleteTemplate" -> softDelete(tpl)
    [] op = "duplicateTemplate" -> Clone(tpl, newId, AbsentText, Root)

\* The handler's write of the template record: await storage.set(templateKey(id), tpl),
\* storage.set(templateKey(newId), clone) or, for a hard delete, storage.delete(...).
RaceWrite(r) ==
  LET q == inflight[r] IN
  /\ q.pc = "write"
  /\ IF q.op = "deleteTemplate" /\ q.args.hard
     THEN /\ store' = Drop(store, q.args.id)
          /\ inflight' = [inflight EXCEPT ![r].pc = "readIndex"]
          /\ UNCHANGED nextId
     ELSE IF q.op = "duplicateTemplate"
     THEN LET clone == Rewritten(q.op, q.args, q.tpl, nextId)
          IN /\ store' = Put(store, nextId, clone)
             /\ inflight' = [inflight EXCEPT ![r].pc = "readIndex", ![r].tpl = clone]
             /\ nextId' = nextId + 1
     ELSE LET tpl == Rewritten(q.op, q.args, q.tpl, NoId)
              enforces == q.op \in {"setTemplateActive", "assignTemplateToProjects",
                                    "assignTemplateToIssueTypes"} /\ tpl.active
          IN /\ store' = Put(store, q.args.id, tpl)
             /\ inflight' = [inflight EXCEPT ![r].tpl = tpl,
                               ![r].pc = IF enforces THEN "readIndex" ELSE "done"]
             /\ UNCHANGED nextId
  /\ UNCHANGED <<index, config, projectSettings, last, req, data>>
  /\ UNCHANGED pureVars

\* The next position of idx, from i on, that the scan reads: `if (id === template.id)
\* continue` comes before the storage.get.
RECURSIVE ScanFrom(_, _, _)
ScanFrom(idx, i, self) ==
  IF i > Len(idx) THEN i
  ELSE IF idx[i] = self THEN ScanFrom(idx, i + 1, self)
  ELSE i

\* The scan goes on at position i, or the handler returns.
Scanning(q, i, deactivated) ==
  LET j == ScanFrom(q.idx, i, q.tpl.id)
  IN [q EXCEPT !.i = j, !.deactivated = deactivated, !.other = Null,
               !.pc = IF j > Len(q.idx) THEN "done" ELSE "scan"]

\* readIndex as it would be if the enforcement returned without scanning.
RaceReadIndexNoScan(r) ==
  LET q == inflight[r] IN
  /\ q.pc = "readIndex"
  /\ inflight' = [inflight EXCEPT ![r] =
       IF q.op \in {"createTemplate", "duplicateTemplate", "deleteTemplate"}
       THEN [q EXCEPT !.idx = index, !.pc = "writeIndex"]
       ELSE [q EXCEPT !.idx = index, !.pc = "done"]]
  /\ UNCHANGED <<store, index, nextId, config, projectSettings, last, req, data>>
  /\ UNCHANGED pureVars

\* const idx = await readIndex()
RaceReadIndex(r) ==
  LET q == inflight[r] IN
  /\ q.pc = "readIndex"
  /\ inflight' = [inflight EXCEPT ![r] =
       IF q.op \in {"createTemplate", "duplicateTemplate", "deleteTemplate"}
       THEN [q EXCEPT !.idx = index, !.pc = "writeIndex"]
       ELSE Scanning([q EXCEPT !.idx = index], 1, << >>)]
  /\ UNCHANGED <<store, index, nextId, config, projectSettings, last, req, data>>
  /\ UNCHANGED pureVars

\* idx.unshift(id); await writeIndex(idx) / await writeIndex(idx.filter(...))
RaceWriteIndex(r) ==
  LET q == inflight[r] IN
  /\ q.pc = "writeIndex"
  /\ index' = IF q.op = "deleteTemplate" THEN FilterOut(q.idx, q.args.id)
              ELSE Unshift(q.idx, q.tpl.id)
  /\ inflight' = [inflight EXCEPT ![r].pc = "done"]
  /\ UNCHANGED <<store, nextId, config, projectSettings, last, req, data>>
  /\ UNCHANGED pureVars

\* const other = await storage.get(templateKey(id)) and the tests that follow it.
RaceScanGet(r) ==
  LET q  == inflight[r]
      id == q.idx[q.i]
  IN
  /\ q.pc = "scan"
  /\ inflight' = [inflight EXCEPT ![r] =
       IF id \notin DOMAIN store \/ store[id].deleted \/ ~store[id].active
       THEN Scanning(q, q.i + 1, q.deactivated)
       ELSE IF /\ setsOverlap(q.tpl.assignedProjects, store[id].assignedProjects)
               /\ setsOverlap(q.tpl.assignedIssueTypes, store[id].assignedIssueTypes)
       THEN [q EXCEPT !.other = store[id], !.pc = "scanSet"]
       ELSE Scanning(q, q.i + 1, q.deactivated)]
  /\ UNCHANGED <<store, index, nextId, config, projectSettings, last, req, data>>
  /\ UNCHANGED pureVars

\* The deactivation as it would be without `deactivated.push(id)`.
RaceScanSetNoPush(r) ==
  LET q  == inflight[r]
      id == q.idx[q.i]
  IN
  /\ q.pc = "scanSet"
  /\ store' = Put(store, id, [q.other EXCEPT !.active = FALSE])
  /\ inflight' = [inflight EXCEPT ![r] = Scanning(q, q.i + 1, q.deactivated)]
  /\ UNCHANGED <<index, nextId, config, projectSettings, last, req, data>>
  /\ UNCHANGED pureVars

\* other.active = false; await storage.set(templateKey(id), other); deactivated.push(id)
RaceScanSet(r) ==
  LET q  == inflight[r]
      id == q.idx[q.i]
  IN
  /\ q.pc = "scanSet"
  /\ store' = Put(store, id, [q.other EXCEPT !.active = FALSE])
  /\ inflight' = [inflight EXCEPT ![r] = Scanning(q, q.i + 1, Append(q.deactivated, id))]
  /\ UNCHANGED <<index, nextId, config, projectSettings, last, req, data>>
  /\ UNCHANGED pureVars

\* The requests that arrive.
RaceInputs ==
  { <<"setTemplateActive", Args(id, a, Undefined, Undefined, FALSE)>> :
      id \in Ids, a \in BOOLEAN }
  \cup { <<"assignTemplateToProjects", Args(id, FALSE, p, Undefined, FALSE)>> :
           id \in Ids, p \in {{}, {"Y"}} }
  \cup { <<"assignTemplateToIssueTypes", Args(id, FALSE, Undefined, {"Bug"}, FALSE)>> :
           id \in Ids }
  \cup { <<"updateTemplate", Args(id, TRUE, Undefined, Undefined, FALSE)>> : id \in Ids }
  \cup { <<"deleteTemplate", Args(id, FALSE, Undefined, Undefined, hard)>> :
           id \in Ids, hard \in BOOLEAN }
  \cup { <<"duplicateTemplate", Args(id, FALSE, Undefined, Undefined, FALSE)>> : id \in Ids }

RaceShapes == [active : BOOLEAN, assignedProjects : {{}, {"X"}, {"Y"}}]

RaceInit ==
  /\ \E f \in [Ids -> RaceShapes] :
       /\ \A i, j \in Ids :
            (i # j /\ f[i].active /\ f[j].active) =>
              ~setsOverlap(f[i].assignedProjects, f[j].assignedProjects)
       /\ store = [i \in Ids |->
                    [NewTemplate(i, "Tpl", "Fix", "", Root.accountId) EXCEPT
                       !.active = f[i].active,
                       !.assignedProjects = f[i].assignedProjects,
                       !.assignedIssueTypes = {}]]
  /\ index = Descending(Ids)
  /\ nextId = MaxIds + 1
  /\ config = DefaultConfig
  /\ projectSettings = << >>
  /\ last = Idle
  /\ req = NoReq
  /\ data = Null
  /\ fa = {} /\ fb = {} /\ fkey = Missing /\ ftype = Missing
  /\ fout = [fn |-> "none", val |-> FALSE]
  /\ inflight = NoRequests

RaceNext ==
  \E r \in Requests :
    \/ \E in \in RaceInputs : RaceGet(r, in[1], in[2])
    \/ RaceCreate(r)
    \/ RaceWrite(r)
    \/ RaceReadIndex(r)
    \/ RaceWriteIndex(r)
    \/ RaceScanGet(r)
    \/ RaceScanSet(r)

RaceSpec == RaceInit /\ [][RaceNext]_vars

-----------------------------------------------------------------------------
(* ScopeSpec: the overlap test of the enforcement and the matching test of the     *)
(* prefill applied to the same two templates.  The store holds the templates of    *)
(* Ids, each with a scope an admin can give it: an axis no handler has written     *)
(* yet, the wildcard, one value, every value, or the empty string, which both      *)
(* assign handlers and updateTemplate store like any other element (they test      *)
(* Array.isArray only).  generateId() is not ordered by creation, so either         *)
(* template may be the newer one: the index is the stored ids in either order.      *)

\* The arrays an axis over the values S can hold.
ScopeAxes(S) == {Undefined, {}, S} \cup {{x} : x \in S \cup {Missing}}

ScopeShapes ==
  [active : BOOLEAN,
   assignedProjects : ScopeAxes(Projects), assignedIssueTypes : ScopeAxes(IssueTypes)]

\* The orders of the ids of S in an index.
RECURSIVE Orders(_)
Orders(S) ==
  IF S = {} THEN {<< >>}
  ELSE UNION { { <<x>> \o o : o \in Orders(S \ {x}) } : x \in S }

\* projectsOverlap && issueTypesOverlap of enforceUniqueActiveTemplates.
scopesOverlap(template, other) ==
  /\ setsOverlap(template.assignedProjects, other.assignedProjects)
  /\ setsOverlap(template.assignedIssueTypes, other.assignedIssueTypes)

ScopeInit ==
  /\ \E f \in [Ids -> ScopeShapes] :
       store = [i \in Ids |->
                 [NewTemplate(i, "Tpl", "Fix", "", Root.accountId) EXCEPT
                    !.active = f[i].active,
                    !.assignedProjects = f[i].assignedProjects,
                    !.assignedIssueTypes = f[i].assignedIssueTypes]]
  /\ index \in Orders(Ids)
  /\ nextId = MaxIds + 1
  /\ config = DefaultConfig
  /\ projectSettings = << >>
  /\ last = Idle
  /\ req = NoReq
  /\ data = Null
  /\ fa = {} /\ fb = {}
  /\ fkey \in Keys(Projects) /\ ftype \in Keys(IssueTypes)
  /\ fout = [fn |-> "none", val |-> FALSE]
  /\ inflight = NoRequests

\* The overlap test of the enforcement for the templates a and b.
ApplyScopesOverlap(a, b) ==
  /\ a # b
  /\ fout' = [fn |-> "scopesOverlap", a |-> a, b |-> b,
              val |-> scopesOverlap(store[a], store[b])]
  /\ UNCHANGED <<store, index, nextId, config, projectSettings, last, req, data>>
  /\ UNCHANGED <<fa, fb, fkey, ftype>>
  /\ UNCHANGED raceVars

\* findMatchingTemplate(fkey, ftype) over the store and its index.
ApplyLookup ==
  /\ fout' = [fn |-> "lookup", val |-> findMatchingTemplate(store, index, fkey, ftype)]
  /\ UNCHANGED <<store, index, nextId, config, projectSettings, last, req, data>>
  /\ UNCHANGED <<fa, fb, fkey, ftype>>
  /\ UNCHANGED raceVars

ScopeNext ==
  \/ \E a \in Ids, b \in Ids : ApplyScopesOverlap(a, b)
  \/ ApplyLookup

ScopeSpec == ScopeInit /\ [][ScopeNext]_vars

-----------------------------------------------------------------------------
(* The claims.  Scopes are read here as the sets they stand for: an absent axis *)
(* and an empty one are the wildcard.                                            *)

Axis(a) == IF a = Undefined THEN {} ELSE a

\* The scope of t covers the concrete pair (p, it).
Covers(t, p, it) ==
  /\ Axis(t.assignedProjects) = {} \/ p \in Axis(t.assignedProjects)
  /\ Axis(t.assignedIssueTypes) = {} \/ it \in Axis(t.assignedIssueTypes)

AxesMeet(a, b) == Axis(a) = {} \/ Axis(b) = {} \/ Axis(a) \cap Axis(b) # {}

Overlapping(t, o) ==
  /\ AxesMeet(t.assignedProjects, o.assignedProjects)
  /\ AxesMeet(t.assignedIssueTypes, o.assignedIssueTypes)

InIndex(idx, id) == \E i \in 1..Len(idx) : idx[i] = id

\* The other templates of the index that are stored, not deleted, active and overlap T.
Rivals(st, idx, T) ==
  { o \in DOMAIN st : /\ o # T /\ InIndex(idx, o)
                      /\ ~st[o].deleted /\ st[o].active
                      /\ Overlapping(st[T], st[o]) }

AssignOps == {"assignTemplateToProjects", "assignTemplateToIssueTypes"}
EnforceOps == AssignOps \cup {"setTemplateActive"}

\* C1: for every concrete (project, issueType) pair at most one stored template that
\* is active and not deleted has a scope covering the pair.
C1_OneActivePerPair ==
  \A p \in Projects, it \in IssueTypes :
    Cardinality({ id \in DOMAIN store :
                    store[id].active /\ ~store[id].deleted /\ Covers(store[id], p, it) }) <= 1

\* C2: when setTemplateActive(T, true) has returned, no other non-deleted template of
\* the index that overlaps T on both axes is still active.
C2_ActivationClearsRivals ==
  (last.op = "setTemplateActive" /\ last.ok /\ store[last.id].active)
    => Rivals(store, index, last.id) = {}

C2_Witness ==
  /\ last.op = "setTemplateActive" /\ last.ok
  /\ store[last.id].active
  /\ last.deactivated # << >>
  /\ \E o \in DOMAIN store : o # last.id /\ store[o].active

\* C3: a successful assignTemplateToProjects / assignTemplateToIssueTypes on an active
\* template leaves no other active non-deleted template overlapping the NEW scope; on
\* an inactive template it changes no other record and returns no deactivated id.
C3_AssignEnforcesNewScope ==
  [][ (last'.op \in AssignOps /\ last'.ok) =>
        LET T == last'.id IN
          IF store'[T].active
          THEN Rivals(store', index', T) = {}
          ELSE /\ last'.deactivated = << >>
               /\ \A o \in DOMAIN store : o # T => store'[o] = store[o] ]_vars

C3_Witness ==
  /\ last.op \in AssignOps /\ last.ok
  /\ store[last.id].active
  /\ last.deactivated # << >>

\* C4: when updateTemplate stores a template as active, with active newly true or with
\* a scope axis changed on an already-active template, every other active non-deleted
\* template overlapping it has been deactivated on return.
C4_UpdateEnforces ==
  [][ (last'.op = "updateTemplate" /\ last'.ok) =>
        LET T == last'.id IN
          ( /\ store'[T].active
            /\ \/ ~store[T].active
               \/ store'[T].assignedProjects # store[T].assignedProjects
               \/ store'[T].assignedIssueTypes # store[T].assignedIssueTypes )
          => Rivals(store', index', T) = {} ]_vars

\* C5: the record createTemplate or duplicateTemplate has stored is not active when
\* the handler returns.
C5_NewRecordInactive ==
  (last.op \in {"createTemplate", "duplicateTemplate"} /\ last.ok)
    => ~store[last.id].active

\* The index filtered to the templates other than T that are stored, not deleted,
\* active and overlap the scope of tpl.
ExpectedDeactivated(pre, idx, T, tpl) ==
  SelectSeq(idx, LAMBDA o : /\ o # T /\ o \in DOMAIN pre
                            /\ ~pre[o].deleted /\ pre[o].active
                            /\ Overlapping(tpl, pre[o]))

\* C6: the deactivated list an enforcement for the active template T returns is the
\* index filtered to the templates other than T that were, before the call, stored,
\* not deleted, active and overlapping T's scope on both axes: those ids, in index
\* order, T's id never among them.
C6_DeactivatedList ==
  [][ (last'.op \in EnforceOps /\ last'.ok /\ store'[last'.id].active) =>
        /\ last'.deactivated = ExpectedDeactivated(store, index, last'.id, store'[last'.id])
        /\ \A i \in 1..Len(last'.deactivated) : last'.deactivated[i] # last'.id ]_vars

C6_Witness ==
  /\ last.op = "setTemplateActive" /\ last.ok /\ last.id = 2
  /\ index = <<3, 2, 1>>
  /\ last.deactivated = <<3, 1>>

\* C7: once the enforcement for the active template T has run, running it again with
\* no write in between (the enforcement alone, or setTemplateActive(T, true) again)
\* returns an empty deactivated list and leaves every record as it is.
C7_EnforceIdempotent ==
  (last.op \in EnforceOps /\ last.ok /\ store[last.id].active) =>
    LET again == enforceUniqueActiveTemplates(store, index, store[last.id])
        twice == setTemplateActive(store, index, last.id, TRUE)
    IN /\ again.deactivated = << >> /\ again.store = store
       /\ twice.deactivated = << >> /\ twice.store = store

C7_Witness ==
  /\ last.op = "setTemplateActive" /\ last.ok
  /\ store[last.id].active
  /\ Len(last.deactivated) = 2

\* C8: for sets a, b of strings (an absent axis counting as empty) setsOverlap(a, b)
\* is true exactly when a is empty, b is empty or they share an element; it is
\* symmetric, and an empty set overlaps every set.
C8_SetsOverlap ==
  (fout.fn = "setsOverlap" /\ fa # NotArray /\ fb # NotArray) =>
    /\ fout.val = (Axis(fa) = {} \/ Axis(fb) = {} \/ Axis(fa) \cap Axis(fb) # {})
    /\ fout.val = setsOverlap(fb, fa)
    /\ (Axis(fa) = {} \/ Axis(fb) = {}) => fout.val

C8_Witness ==
  /\ fout.fn = "setsOverlap"
  /\ fa = Undefined /\ fb = {"X"}
  /\ fout.val

\* The scope of t matches the lookup (k, ty); Missing is an absent key or type.
MatchesLookup(t, k, ty) ==
  /\ k # Missing
  /\ Axis(t.assignedProjects) = {} \/ k \in Axis(t.assignedProjects)
  /\ Axis(t.assignedIssueTypes) = {} \/ (ty # Missing /\ ty \in Axis(t.assignedIssueTypes))

Candidates(k, ty) ==
  { i \in 1..Len(index) :
      /\ index[i] \in DOMAIN store
      /\ ~store[index[i]].deleted /\ store[index[i]].active
      /\ MatchesLookup(store[index[i]], k, ty) }

\* C9: for a non-empty projectKey findMatchingTemplate returns the first template in
\* index order that is stored, not deleted, active and matches (projectKey,
\* issueType), which is the newest such template, and none when there is no such
\* template; it never returns a deleted or inactive one.
C9_FindMatchFirstInIndex ==
  (last.op = "getPrefillForCreateIssue" /\ last.key # Missing) =>
    LET cands == Candidates(last.key, last.type) IN
      IF cands = {} THEN last.found = NoId
      ELSE /\ \E i \in cands : last.found = index[i] /\ \A j \in cands : i <= j
           /\ \A j \in cands : index[j] <= last.found

C9_Witness ==
  /\ last.op = "getPrefillForCreateIssue"
  /\ last.found # NoId
  /\ \E d \in DOMAIN store :
       /\ d > last.found /\ store[d].deleted
       /\ MatchesLookup(store[d], last.key, last.type)

\* C10: a template matches the lookup (projectKey, issueType) iff projectKey is
\* non-empty, assignedProjects is empty or contains projectKey, and assignedIssueTypes
\* is empty or issueType is present and contained in it.
C10_ScopeMatch ==
  (fout.fn \in {"findMatchingTemplate", "findApplicableTemplate"}) =>
    fout.val = ( /\ fkey # Missing
                 /\ Axis(fa) = {} \/ fkey \in Axis(fa)
                 /\ Axis(fb) = {} \/ (ftype # Missing /\ ftype \in Axis(fb)) )

C10_Witness ==
  /\ fout.fn = "findMatchingTemplate"
  /\ fkey # Missing /\ ftype = Missing
  /\ fb = {"X"} /\ fa = {}
  /\ ~fout.val

\* A string is blank: absent, empty or made of spaces only.
Blank(s) == s = AbsentText \/ \A i \in 1..Len(s) : SubSeq(s, i, i) = " "

\* C11: for the matched template and any caller-supplied currentSummary and
\* currentDescription, getPrefillForCreateIssue returns applySummary = true iff the
\* template summary is non-blank and currentSummary is blank (empty, absent or
\* whitespace only), applyDescription = true iff the template content is non-blank
\* and currentDescription is blank; a non-blank current value makes the flag false
\* whatever the template holds, and the returned summary / description is none when
\* the template's value is blank (the template's own value otherwise).
C11_PrefillFlags ==
  (last.op = "getPrefillForCreateIssue" /\ last.found # NoId) =>
    LET tpl == store[last.found]
        currentSummary     == req.args.currentSummary
        currentDescription == req.args.currentDescription
    IN /\ data.templateId = last.found
       /\ data.applySummary = (~Blank(tpl.summary) /\ Blank(currentSummary))
       /\ data.applyDescription = (~Blank(tpl.content) /\ Blank(currentDescription))
       /\ ~Blank(currentSummary) => ~data.applySummary
       /\ ~Blank(currentDescription) => ~data.applyDescription
       /\ data.summary = (IF Blank(tpl.summary) THEN NullText ELSE tpl.summary)
       /\ data.description = (IF Blank(tpl.content) THEN NullText ELSE tpl.content)

C11_Witness ==
  /\ last.op = "getPrefillForCreateIssue" /\ last.found # NoId
  /\ store[last.found].summary = " Fix " /\ store[last.found].content = " "
  /\ req.args.currentSummary = " " /\ req.args.currentDescription = AbsentText
  /\ data.applySummary /\ ~data.applyDescription
  /\ data.summary = " Fix " /\ data.description = NullText

\* The sets an axis holds as a reader sees them: an absent axis reads as empty.
Written(tpl) ==
  [assignedProjects |-> Axis(tpl.assignedProjects),
   assignedIssueTypes |-> Axis(tpl.assignedIssueTypes)]

ScopeWriters == AssignOps \cup {"updateTemplate"}

\* C12: after a successful assignTemplateToProjects / assignTemplateToIssueTypes that
\* writes arrays, getTemplateAssignments for that id returns exactly the sets last
\* written on each axis: the assign stores the arrays it is given, no request other
\* than an assign or update of that template changes them (an enforcement that
\* deactivates the template included), and getTemplateAssignments returns what is
\* stored.
C12_AssignRoundTrip ==
  [][ /\ (last'.op = "assignTemplateToProjects" /\ last'.ok) =>
           /\ Written(store'[last'.id]).assignedProjects = req'.args.projects
           /\ isArray(req'.args.issueTypes) =>
                Written(store'[last'.id]).assignedIssueTypes = req'.args.issueTypes
      /\ (last'.op = "assignTemplateToIssueTypes" /\ last'.ok) =>
           /\ Written(store'[last'.id]).assignedIssueTypes = req'.args.issueTypes
           /\ isArray(req'.args.projects) =>
                Written(store'[last'.id]).assignedProjects = req'.args.projects
      /\ \A T \in DOMAIN store :
           (T \in DOMAIN store' /\ ~(last'.op \in ScopeWriters /\ last'.id = T /\ last'.ok))
             => Written(store'[T]) = Written(store[T])
      /\ (last'.op = "getTemplateAssignments" /\ last'.ok) =>
           data' = Written(store[last'.id]) ]_vars

C12_Witness ==
  /\ last.op = "getTemplateAssignments" /\ last.ok
  /\ data.assignedProjects = {"X"} /\ data.assignedIssueTypes = {"Bug"}
  /\ \E o \in DOMAIN store : o # last.id /\ ~store[o].active /\ ~store[o].deleted

\* C13: an assign call replaces only the axes it is given: assignTemplateToProjects
\* without issueTypes leaves assignedIssueTypes unchanged, assignTemplateToIssueTypes
\* without projects leaves assignedProjects unchanged, and neither changes the
\* target's own active flag, id, owner, name, summary or content.
C13_AssignFrame ==
  [][ (last'.op \in AssignOps /\ last'.ok) =>
        LET T == last'.id IN
          /\ (last'.op = "assignTemplateToProjects" /\ req'.args.issueTypes = Undefined)
               => store'[T].assignedIssueTypes = store[T].assignedIssueTypes
          /\ (last'.op = "assignTemplateToIssueTypes" /\ req'.args.projects = Undefined)
               => store'[T].assignedProjects = store[T].assignedProjects
          /\ store'[T].active = store[T].active
          /\ store'[T].id = store[T].id
          /\ store'[T].owner = store[T].owner
          /\ store'[T].name = store[T].name
          /\ store'[T].summary = store[T].summary
          /\ store'[T].content = store[T].content ]_vars

C13_Witness ==
  /\ last.op = "assignTemplateToProjects" /\ last.ok
  /\ req.args.issueTypes = Undefined
  /\ store[last.id].assignedProjects = {"X"}
  /\ store[last.id].assignedIssueTypes = {"Bug"}
  /\ store[last.id].active

NeedsLiveTemplate ==
  AssignOps \cup {"setTemplateActive", "getTemplateAssignments"}

\* The request names a template and, for an assign, gives an array on the axis the
\* call is for.
WellFormed(op, args) ==
  /\ args.id # NoId
  /\ op = "assignTemplateToProjects" => isArray(args.projects)
  /\ op = "assignTemplateToIssueTypes" => isArray(args.issueTypes)

\* C14: assignTemplateToProjects, assignTemplateToIssueTypes, setTemplateActive and
\* getTemplateAssignments, called (with a well-formed payload) for an id that has no
\* stored record or whose record is soft-deleted, fail with the not-found error and
\* write nothing: no record, active flag or index entry changes.
C14_NotFound ==
  [][ ( /\ last'.op \in NeedsLiveTemplate
        /\ WellFormed(last'.op, req'.args)
        /\ (req'.args.id \notin DOMAIN store \/ store[req'.args.id].deleted) )
      => /\ ~last'.ok /\ last'.err = "notfound"
         /\ store' = store /\ index' = index ]_vars

C14_Witness ==
  /\ last.op = "setTemplateActive" /\ last.err = "notfound"
  /\ last.id \in DOMAIN store /\ store[last.id].deleted
  /\ req.args.active

\* C15: malformed scope input is rejected, never coerced: whenever an axis is given
\* to assignTemplateToProjects or assignTemplateToIssueTypes as a value that is not a
\* collection, be it the call's primary axis or its optional secondary one, the call
\* (for a template that is stored and not deleted) fails with the validation error
\* and no record changes.
C15_MalformedRejected ==
  [][ ( /\ last'.op \in AssignOps
        /\ req'.args.id \in DOMAIN store /\ ~store[req'.args.id].deleted
        /\ (req'.args.projects = NotArray \/ req'.args.issueTypes = NotArray) )
      => /\ ~last'.ok /\ last'.err = "validation"
         /\ store' = store ]_vars

\* The caller is a global admin: on the admins list or flagged as admin.
GlobalAdmin(user) ==
  user # NoUser /\ (user.accountId \in config.admins \/ user.isAdmin)

\* Jira's answer shows a held permission that is an admin key or named like one.
HeldAdmin(answer) ==
  /\ answer.kind = "permissions"
  /\ \E p \in answer.permissions :
       /\ p.havePermission
       /\ \/ p.key \in {"PROJECT_ADMIN", "ADMINISTER_PROJECTS", "PROJECT_ADMINISTER"}
          \/ p.name = "Site Admin"

GatedOps == AssignOps \cup {"setTemplateActive", "updateTemplate", "deleteTemplate",
                            "deleteTemplateHard", "deleteTemplateSoft"}

\* The caller of the request is not allowed to change template T: allowAllUsers is
\* off, the caller is no global admin and not T's owner and, for a project
\* assignment, not a project admin of every target project.
Unauthorized(op, request, T) ==
  /\ ~config.allowAllUsers
  /\ ~GlobalAdmin(request.user)
  /\ ~(request.user # NoUser /\ store[T].owner = request.user.accountId)
  /\ op = "assignTemplateToProjects" =>
       \E p \in request.args.projects : ~HeldAdmin(request.jira[p])

\* C16: every mutating operation (assign, activate, update, delete) is gated: a
\* well-formed request for a stored template by a caller who is not allowed is
\* rejected with the authorization error and no template's flag or scope changes.
C16_MutationsGated ==
  [][ ( /\ last'.op \in GatedOps
        /\ WellFormed(last'.op, req'.args)
        /\ req'.args.id \in DOMAIN store
        /\ (last'.op \notin {"deleteTemplate", "deleteTemplateHard", "deleteTemplateSoft"}
              => ~store[req'.args.id].deleted)
        /\ Unauthorized(last'.op, req', req'.args.id) )
      => /\ ~last'.ok /\ last'.err = "auth"
         /\ store' = store ]_vars

\* C17: no partial mutation on failure: when a handler (create, update, delete,
\* duplicate, the two assigns, set active, set global config, set project setting)
\* ends with a validation, not-found or authorization failure, the index, every
\* template record, the global config and the project settings are as before.
C17_NoPartialMutation ==
  [][ ~last'.ok =>
        /\ store' = store /\ index' = index
        /\ config' = config /\ projectSettings' = projectSettings ]_vars

C17_Witness ==
  /\ last.op = "assignTemplateToProjects" /\ last.err = "auth"
  /\ req.user = Carol
  /\ store[last.id].active /\ store[last.id].assignedProjects = {}
  /\ \E o \in DOMAIN store : o # last.id /\ store[o].active

\* The caller's request stands or falls with the project-permission check.
DependsOnCheck(request, T) ==
  /\ ~config.allowAllUsers
  /\ ~GlobalAdmin(request.user)
  /\ ~(request.user # NoUser /\ store[T].owner = request.user.accountId)

\* C18: the project-permission check fails closed: when the permission call throws,
\* returns no usable body or a body without a permissions map, a caller who depends
\* on the check is denied and assignTemplateToProjects (like
\* setProjectUseGlobalTemplates) writes nothing; such a caller gets through only
\* when Jira's answer shows a held permission that is an admin key or has a name
\* containing 'admin'.
C18_FailsClosed ==
  [][ /\ ( /\ last'.op = "assignTemplateToProjects"
           /\ WellFormed(last'.op, req'.args)
           /\ req'.args.id \in DOMAIN store /\ ~store[req'.args.id].deleted
           /\ req'.args.projects # {}
           /\ DependsOnCheck(req', req'.args.id) )
         => /\ (\E p \in req'.args.projects : req'.jira[p].kind # "permissions")
                 => (~last'.ok /\ last'.err = "auth" /\ store' = store)
            /\ last'.ok => \A p \in req'.args.projects : HeldAdmin(req'.jira[p])
      /\ ( /\ last'.op = "setProjectUseGlobalTemplates"
           /\ req'.args.projectKey # Missing
           /\ ~config.allowAllUsers /\ ~GlobalAdmin(req'.user) )
         => /\ req'.jira[req'.args.projectKey].kind # "permissions"
                 => (~last'.ok /\ last'.err = "auth" /\ projectSettings' = projectSettings)
            /\ last'.ok => HeldAdmin(req'.jira[req'.args.projectKey]) ]_vars

C18_Witness ==
  /\ last.op = "assignTemplateToProjects" /\ last.ok
  /\ req.user = Carol /\ ~config.allowAllUsers
  /\ store[last.id].owner # Carol.accountId
  /\ req.jira["X"] = JiraPermissions({Permission("BROWSE_PROJECTS", TRUE, "Site Admin")})

\* The records a read handler returned.
ReturnedRecords ==
  IF last.op \in {"listTemplates", "filterTemplatesByProject", "getTemplatesForProject",
                  "searchTemplatesByName", "getAssignedTemplatesForProject"} /\ last.ok
  THEN { store[data.templates[i].id] : i \in 1..Len(data.templates) }
  ELSE IF last.op \in {"findApplicableTemplate", "getPrefillForCreateIssue"}
          /\ last.ok /\ last.found # NoId
  THEN { store[last.found] }
  ELSE {}

\* C19: a soft-deleted template is excluded from every read and match operation:
\* none of listTemplates, searchTemplatesByName, filterTemplatesByProject,
\* getTemplatesForProject, getAssignedTemplatesForProject, findApplicableTemplate and
\* getPrefillForCreateIssue returns a record whose deleted flag is true, and
\* listFilterProjects counts none.
C19_DeletedHidden ==
  /\ \A tpl \in ReturnedRecords : ~tpl.deleted
  /\ (last.op = "listFilterProjects") =>
       \A k \in DOMAIN data.counts :
         data.counts[k] = Cardinality({ id \in DOMAIN store :
                                          /\ ~store[id].deleted
                                          /\ IF Axis(store[id].assignedProjects) = {}
                                             THEN k = AllKey
                                             ELSE k \in store[id].assignedProjects })

\* The position of id in idx.
Pos(idx, id) == CHOOSE i \in 1..Len(idx) : idx[i] = id

NeedsRecord == AssignOps \cup {"setTemplateActive", "updateTemplate", "getTemplate"}

\* C20: after a successful deleteTemplate(id, hard = true) no record is stored under
\* id, id does not occur in the index, the remaining ids keep their relative order
\* and no other record is modified; the id stays without a record, and getTemplate,
\* the assigns, setTemplateActive and updateTemplate on it fail with not-found.
C20_HardDelete ==
  [][ /\ (last'.op = "deleteTemplateHard" /\ last'.ok) =>
           LET id == last'.id IN
             /\ id \notin DOMAIN store'
             /\ ~InIndex(index', id)
             /\ \A o \in DOMAIN store : o # id => (o \in DOMAIN store' /\ store'[o] = store[o])
             /\ \A o \in DOMAIN store : (o # id /\ InIndex(index, o)) => InIndex(index', o)
             /\ \A a, b \in DOMAIN store' :
                  (InIndex(index', a) /\ InIndex(index', b)) =>
                    ((Pos(index', a) < Pos(index', b)) <=> (Pos(index, a) < Pos(index, b)))
      /\ \A id \in 1..(nextId - 1) :
           id \notin DOMAIN store =>
             /\ id \notin DOMAIN store'
             /\ (last'.op \in NeedsRecord /\ last'.id = id /\ WellFormed(last'.op, req'.args))
                  => (~last'.ok /\ last'.err = "notfound") ]_vars

C20_Witness ==
  /\ last.op = "updateTemplate" /\ last.err = "notfound"
  /\ last.id = 1 /\ 1 \notin DOMAIN store
  /\ index = <<2>> /\ nextId = 3

\* C21: soft delete is one-way and forces inactivity: with handlers executed one at
\* a time, every stored record with deleted = true has active = false, and once a
\* record is deleted no later call (update, assign, setTemplateActive, duplicate, a
\* second soft delete) stores that id with deleted = false or active = true; the
\* record disappears only through a hard delete of that id.
C21_SoftDeleteOneWay ==
  [][ /\ \A id \in DOMAIN store' : store'[id].deleted => ~store'[id].active
      /\ \A id \in DOMAIN store :
           store[id].deleted =>
             IF id \in DOMAIN store'
             THEN store'[id].deleted /\ ~store'[id].active
             ELSE last'.op = "deleteTemplateHard" /\ last'.ok /\ last'.id = id ]_vars

C21_Witness ==
  /\ last.op = "updateTemplate" /\ last.err = "notfound"
  /\ req.args.payload.active = "true"
  /\ last.id \in DOMAIN store /\ store[last.id].deleted /\ ~store[last.id].active
  /\ \E o \in DOMAIN store : o # last.id /\ store[o].active

\* C25: frame of the enforcement: the run that follows a write to T (by
\* setTemplateActive or an assign) changes only the active flag of other templates
\* that were active, not deleted and overlapping T's new scope on both axes, and
\* only to false; T keeps what the handler wrote, no template is activated, no scope
\* and no index entry changes, and an inactive, deleted or disjoint template is left
\* as it is: templates with projects {X} and {Y} can both be active.
C25_EnforceFrame ==
  [][ (last'.op \in EnforceOps /\ last'.ok) =>
        LET T == last'.id IN
          /\ index' = index
          /\ DOMAIN store' = DOMAIN store
          /\ last'.op = "setTemplateActive" =>
               store'[T] = [store[T] EXCEPT !.active = req'.args.active]
          /\ last'.op \in AssignOps => store'[T].active = store[T].active
          /\ \A o \in DOMAIN store \ {T} :
               \/ store'[o] = store[o]
               \/ /\ store[o].active /\ ~store[o].deleted
                  /\ store'[T].active
                  /\ Overlapping(store'[T], store[o])
                  /\ store'[o] = [store[o] EXCEPT !.active = FALSE] ]_vars

C25_Witness ==
  /\ last.op = "setTemplateActive" /\ last.ok /\ req.args.active
  /\ store[last.id].active /\ store[last.id].assignedProjects = {"X"}
  /\ store[last.id].assignedIssueTypes = {}
  /\ \E o \in DOMAIN store :
       /\ store[o].active /\ ~store[o].deleted
       /\ store[o].assignedProjects = {"Y"} /\ store[o].assignedIssueTypes = {}

\* C26: with allowAllUsers false, a caller who is neither global admin nor the
\* template's owner changes assignedProjects through assignTemplateToProjects only
\* as project admin of every target project; a caller who is project admin of no
\* project at all is rejected for every projects array, the empty one included, and
\* no record changes.
C26_ProjectAdminOfEvery ==
  [][ ( /\ last'.op = "assignTemplateToProjects"
        /\ WellFormed(last'.op, req'.args)
        /\ req'.args.id \in DOMAIN store /\ ~store[req'.args.id].deleted
        /\ DependsOnCheck(req', req'.args.id) )
      => /\ last'.ok => \A p \in req'.args.projects : HeldAdmin(req'.jira[p])
         /\ (\A p \in Projects : ~HeldAdmin(req'.jira[p]))
              => (~last'.ok /\ last'.err = "auth" /\ store' = store) ]_vars

\* Jira's answer shows a held permission that project-level.js takes for project
\* administration: PROJECT_ADMIN, ADMINISTER_PROJECTS or a name containing 'admin'.
HeldProjectAdmin(answer) ==
  /\ answer.kind = "permissions"
  /\ \E p \in answer.permissions :
       /\ p.havePermission
       /\ p.key \in {"PROJECT_ADMIN", "ADMINISTER_PROJECTS"} \/ p.name = "Site Admin"

\* One step under the project-settings rule; byProject tells whether the requester
\* of setProjectUseGlobalTemplates is let through for the project itself.
SettingsStep(byProject) ==
      /\ projectSettings' # projectSettings =>
           /\ last'.ok
           /\ last'.op \in {"setProjectEnabled", "setProjectUseGlobalTemplates"}
           /\ \A k \in DOMAIN projectSettings' :
                (k \notin DOMAIN projectSettings \/ projectSettings'[k] # projectSettings[k])
                  => k = req'.args.projectKey
      /\ last'.op = "setProjectEnabled" =>
           IF GlobalAdmin(req'.user)
           THEN last'.ok \/ req'.args.projectKey = Missing
           ELSE ~last'.ok /\ last'.err = "auth" /\ projectSettings' = projectSettings
      /\ (last'.op = "setProjectUseGlobalTemplates" /\ req'.args.projectKey # Missing) =>
           IF config.allowAllUsers \/ GlobalAdmin(req'.user) \/ byProject
           THEN last'.ok
           ELSE ~last'.ok /\ last'.err = "auth" /\ projectSettings' = projectSettings
      /\ (last'.op = "getProjectConfig" /\ last'.ok
            /\ req'.args.projectKey \notin DOMAIN projectSettings) =>
           data'.useGlobalTemplates

\* C27 as stated: a project's entry in the project-settings map changes only on an
\* allowed request: setProjectEnabled changes it only for a global admin,
\* setProjectUseGlobalTemplates only when the global config allows all users or the
\* requester is a global admin; any other requester is rejected and the map is
\* unchanged; a project with no entry reads as enabled.
C27_SettingsGated == [][SettingsStep(FALSE)]_vars

\* C27, amended: setProjectUseGlobalTemplates also lets through a requester who, by
\* Jira's answer for that project, holds a permission with key PROJECT_ADMIN or
\* ADMINISTER_PROJECTS or with a name containing 'admin'; every other requester is
\* rejected with the map unchanged, setProjectEnabled is for global admins only, and
\* a project with no entry reads as enabled.
C27_SettingsGatedByProject ==
  [][SettingsStep(HeldProjectAdmin(req'.jira[req'.args.projectKey]))]_vars

C27_Witness ==
  /\ last.op = "setProjectUseGlobalTemplates" /\ last.ok
  /\ req.user = Carol /\ ~config.allowAllUsers /\ Carol.accountId \notin config.admins
  /\ req.jira["X"] = JiraPermissions({Permission("PROJECT_ADMIN", TRUE, NoName)})
  /\ "X" \in DOMAIN projectSettings /\ ~projectSettings["X"]

\* C28: the two matching routines implement the same rule: for every store and
\* every non-empty projectKey and every issueType, present or absent, the
\* findApplicableTemplate handler returns the template findMatchingTemplate finds
\* (or none), and getPrefillForCreateIssue answers for the template
\* findApplicableTemplate finds; for an empty projectKey the first fails and the
\* second returns none.
C28_SameMatch ==
  /\ last.op = "findApplicableTemplate" =>
       IF req.args.projectKey = Missing
       THEN ~last.ok /\ last.err = "validation"
       ELSE /\ last.ok
            /\ last.found = findMatchingTemplate(store, index, req.args.projectKey,
                                                 req.args.issueType)
  /\ last.op = "getPrefillForCreateIssue" =>
       IF req.args.projectKey = Missing
       THEN last.ok /\ last.found = NoId /\ data = Null
       ELSE /\ last.ok
            /\ last.found = findApplicableTemplate(store, index, req.args.projectKey,
                                                   req.args.issueType).found

C28_Witness ==
  /\ last.op = "findApplicableTemplate" /\ last.ok
  /\ req.args.projectKey = "Y" /\ req.args.issueType = Missing
  /\ last.found = 1 /\ index = <<2, 1>>
  /\ store[2].active /\ ~store[2].deleted /\ store[2].assignedProjects = {"X"}

\* idx without the entries equal to id, the others in their order.
RECURSIVE Without(_, _)
Without(idx, id) ==
  IF idx = << >> THEN << >>
  ELSE IF Head(idx) = id THEN Without(Tail(idx), id)
  ELSE <<Head(idx)>> \o Without(Tail(idx), id)

\* C30: index / store consistency with a single writer: after any sequence of
\* handlers executed one at a time from the empty store, the index holds exactly the
\* ids of the stored records, each once, and every record's id field is the id it is
\* stored under; only createTemplate and duplicateTemplate (which insert the new id
\* at the head) and a hard deleteTemplate (which removes the id) change the index,
\* and the existing ids keep their relative order.
C30_IndexConsistent ==
  [][ /\ { index'[i] : i \in 1..Len(index') } = DOMAIN store'
      /\ Len(index') = Cardinality(DOMAIN store')
      /\ \A id \in DOMAIN store' : store'[id].id = id
      /\ index' # index =>
           /\ last'.ok
           /\ \/ /\ last'.op \in {"createTemplate", "duplicateTemplate"}
                 /\ index' = <<last'.id>> \o index
                 /\ ~InIndex(index, last'.id)
              \/ /\ last'.op = "deleteTemplateHard"
                 /\ InIndex(index, last'.id)
                 /\ index' = Without(index, last'.id) ]_vars

C30_Witness ==
  /\ last.op = "duplicateTemplate" /\ last.ok /\ last.id = 2
  /\ index = <<2, 1>>
  /\ store[2].id = 2 /\ store[2].name = "Tpl (copy)"
  /\ store[1].id = 1

\* Request r has returned (or thrown).
Returned(r) == inflight[r].pc = "done"

\* No request is in flight.
Quiescent == \A r \in Requests : ~InFlight(r)

\* id occurs in the sequence s.
Listed(s, id) == \E i \in 1..Len(s) : s[i] = id

\* r and q are two returned, successful setTemplateActive(., true) requests on
\* different templates.
Activations(r, q) ==
  /\ r # q /\ Returned(r) /\ Returned(q)
  /\ inflight[r].op = "setTemplateActive" /\ inflight[q].op = "setTemplateActive"
  /\ inflight[r].ok /\ inflight[q].ok
  /\ inflight[r].args.active /\ inflight[q].args.active
  /\ inflight[r].args.id # inflight[q].args.id

\* C22: activation race: with each storage get / set an atomic step, two concurrent
\* setTemplateActive(., true) requests on two different non-deleted templates with
\* overlapping scopes each report their own template as active, and can still leave
\* both templates inactive (C22_Witness is that state); this happens only when the
\* requests overlapped in time and each request's scan deactivated the other
\* request's template.
C22_ActivationRace ==
  \A r, q \in Requests :
    LET A == inflight[r].args.id
        B == inflight[q].args.id
    IN (Activations(r, q) /\ Overlapping(store[A], store[B])) =>
         /\ inflight[r].tpl.active /\ inflight[q].tpl.active
         /\ (~store[A].active /\ ~store[B].active) =>
              /\ Listed(inflight[r].deactivated, B)
              /\ Listed(inflight[q].deactivated, A)
              /\ ~inflight[r].alone /\ ~inflight[q].alone

C22_Witness ==
  /\ Activations(1, 2)
  /\ Overlapping(store[1], store[2])
  /\ inflight[1].tpl.active /\ inflight[2].tpl.active
  /\ ~store[1].active /\ ~store[2].active
  /\ ~store[1].deleted /\ ~store[2].deleted

\* C23: convergence under concurrent writers: for every interleaving of the storage
\* steps of concurrent setTemplateActive, assignTemplateToProjects and
\* assignTemplateToIssueTypes requests over a fixed index of non-deleted templates,
\* once every request has returned no two active non-deleted templates overlap on
\* both axes.
C23_Converges ==
  ( /\ Quiescent
    /\ \A r \in Requests : Returned(r) => inflight[r].op \in EnforceOps )
  => \A a, b \in DOMAIN store :
       (a # b /\ store[a].active /\ store[b].active
          /\ ~store[a].deleted /\ ~store[b].deleted)
         => ~Overlapping(store[a], store[b])

C23_Witness ==
  /\ \A r \in Requests : Returned(r) /\ inflight[r].ok /\ ~inflight[r].alone
  /\ inflight[1].op = "assignTemplateToProjects" /\ inflight[1].args.id = 1
  /\ inflight[2].op = "setTemplateActive" /\ inflight[2].args.id = 2
  /\ inflight[2].args.active
  /\ Listed(inflight[2].deactivated, 1) /\ Listed(inflight[1].deactivated, 2)
  /\ store[1].active /\ ~store[2].active

\* C24: the index update is a read-modify-write that is not atomic: two concurrent
\* index-modifying requests (createTemplate, duplicateTemplate, hard deleteTemplate)
\* can interleave so that one index write overwrites the other and a stored
\* template's id is missing from the index after both returned (C24_Witness is that
\* state); with a single writer at a time, that is when no request was in flight
\* together with another, the index holds exactly the stored ids, each once.
C24_IndexRace ==
  (Quiescent /\ \A r \in Requests : inflight[r].alone) =>
    /\ { index[i] : i \in 1..Len(index) } = DOMAIN store
    /\ Len(index) = Cardinality(DOMAIN store)

C24_Witness ==
  /\ Quiescent
  /\ \A r \in Requests :
       /\ Returned(r) /\ inflight[r].ok
       /\ inflight[r].op \in {"createTemplate", "duplicateTemplate"}
  /\ \E id \in DOMAIN store : ~InIndex(index, id)

\* C29: under interleaved requests a completed soft delete is never undone by a
\* stale write: once deleteTemplate(T) (soft) has returned, T's stored record stays
\* deleted and inactive whatever another in-flight request that read T before the
\* delete (setTemplateActive, an assign, updateTemplate, an enforcement scan) writes
\* afterwards.
C29_DeleteNotUndone ==
  \A r \in Requests :
    ( /\ Returned(r) /\ inflight[r].ok
      /\ inflight[r].op = "deleteTemplate" /\ ~inflight[r].args.hard
      /\ inflight[r].args.id \in DOMAIN store )
    => /\ store[inflight[r].args.id].deleted
       /\ ~store[inflight[r].args.id].active

\* Some concrete (projectKey, issueType) pair, both components non-empty, is matched
\* by the scopes of t and of o under the rule of findMatchingTemplate.
SharedPair(t, o) ==
  \E p \in Projects, it \in IssueTypes :
    templateMatches(t, p, it) /\ templateMatches(o, p, it)

\* No element of the scope of t is the empty string.
NamedOnly(t) ==
  Missing \notin Axis(t.assignedProjects) /\ Missing \notin Axis(t.assignedIssueTypes)

\* The lookup (fkey, ftype) is matched by both templates the overlap test was applied to.
BothMatchLookup ==
  /\ fkey # Missing
  /\ templateMatches(store[fout.a], fkey, ftype)
  /\ templateMatches(store[fout.b], fkey, ftype)

\* Two templates that both match the same lookup overlap, and under one active
\* template per pair the lookup returns the same template for every index order.
MatchConsequences ==
  /\ (fout.fn = "scopesOverlap" /\ BothMatchLookup) => fout.val
  /\ (fout.fn = "lookup" /\ C1_OneActivePerPair) =>
       \A o \in Orders(Ids) : findMatchingTemplate(store, o, fkey, ftype) = fout.val

\* C31 as stated: for any two scopes setsOverlap holds on both axes iff some
\* concrete (projectKey, issueType) pair with both components non-empty is matched by
\* both scopes under findMatchingTemplate's rule; two templates that both match the
\* same lookup (a missing issueType included) overlap; and under the
\* one-active-per-pair invariant the result of findMatchingTemplate does not depend
\* on index order.
C31_OverlapIffSharedPair ==
  /\ fout.fn = "scopesOverlap" =>
       fout.val = SharedPair(store[fout.a], store[fout.b])
  /\ MatchConsequences

\* C31, amended: if some concrete pair with both components non-empty is matched by
\* both scopes, setsOverlap holds on both axes; the converse holds for scopes whose
\* elements are all non-empty strings (two scopes that meet only in an empty string
\* overlap and match no common pair).  Two templates that both match the same
\* lookup overlap, and under the one-active-per-pair invariant the result of
\* findMatchingTemplate does not depend on index order.
C31_OverlapAgreesWithMatch ==
  /\ fout.fn = "scopesOverlap" =>
       LET t == store[fout.a]
           o == store[fout.b]
       IN /\ SharedPair(t, o) => fout.val
          /\ (NamedOnly(t) /\ NamedOnly(o)) => (fout.val => SharedPair(t, o))
  /\ MatchConsequences

C31_Witness ==
  /\ fout.fn = "scopesOverlap" /\ fout.val
  /\ store[fout.a].assignedProjects = {"X"} /\ store[fout.a].assignedIssueTypes = {"Bug"}
  /\ store[fout.b].assignedProjects = Projects /\ store[fout.b].assignedIssueTypes = {}
  /\ fkey = "X" /\ ftype = Missing
  /\ ~BothMatchLookup
  /\ SharedPair(store[fout.a], store[fout.b])

====
